---- MODULE Spec2Model ----
(***************************************************************************)
(* Model of cloud-data-sync: the Synchronizer (internal/sync), the         *)
(* metadata store it consults (internal/database) and the driver loop of   *)
(* cmd/cloud-data-sync.  Storage providers are the abstract                 *)
(* interfaces.StorageProvider; every provider and store call may fail.      *)
(***************************************************************************)
EXTENDS Integers, Sequences, FiniteSets, TLC

\* ---------------------------------------------------------------- bounds
\* ETags are 1..MaxEtag, modification times 1..MaxTime, sizes 1..MaxSize.
MaxEtag == 2
MaxTime == 1
MaxSize == 2

Names == {"a.txt", "b.txt"}
Etags == 1..MaxEtag
Times == 1..MaxTime
Sizes == 1..MaxSize
ContentTypes == {"text/plain", "image/png"}
\* A record may carry a time from before every time a listing now shows (0).
StoredTimes == 0..MaxTime

\* interfaces.ObjectInfo, restricted to the fields the engine reads.
ObjectInfo == [ETag : Etags, LastModified : Times, Size : Sizes,
               ContentType : ContentTypes]

\* A name that a listing (or the store) does not hold.
Absent == [absent |-> TRUE]

SyncStatuses == {"success", "failed_get", "failed_upload"}

\* database.FileMetadata for one (mapping_id, object_name) key.
FileMetadata ==
    [ETag : Etags, LastModified : StoredTimes, Size : Sizes,
     ContentType : ContentTypes, SyncStatus : SyncStatuses]

\* config.BucketMapping
BucketMapping(sp, sb, tp, tb) ==
    [SourceProviderID |-> sp, SourceBucket |-> sb,
     TargetProviderID |-> tp, TargetBucket |-> tb]

M1 == BucketMapping("gcs", "src", "s3", "dst")
M2 == BucketMapping("gcs", "src", "s3", "bak")
\* Two mappings over provider ids that hold the characters the key is
\* joined with; validateConfig takes any id that is listed once.
M3 == BucketMapping("p", "b", "q:c->r", "dst")
M4 == BucketMapping("p:b->q", "c", "r", "dst")
AllMappings == {M1, M2, M3, M4}

\* A plausible slip: the key is made of the two bucket names alone.
MappingID_BucketsOnly(m) == m.SourceBucket \o "->" \o m.TargetBucket

\* mappingID := fmt.Sprintf("%s:%s->%s:%s", ...)
MappingID(m) ==
    m.SourceProviderID \o ":" \o m.SourceBucket \o "->" \o
    m.TargetProviderID \o ":" \o m.TargetBucket

MappingIDs == {MappingID(m) : m \in AllMappings}

SourceLoc(m) == <<m.SourceProviderID, m.SourceBucket>>
TargetLoc(m) == <<m.TargetProviderID, m.TargetBucket>>
SourceLocs == {SourceLoc(m) : m \in AllMappings}
TargetLocs == {TargetLoc(m) : m \in AllMappings}

\* A plausible slip: the upload is handed mapping.SourceBucket.
UploadLoc_SourceBucket(m) == <<m.TargetProviderID, m.SourceBucket>>

\* targetProvider.UploadObject(ctx, mapping.TargetBucket, ...): the provider
\* and bucket the upload goes to.
UploadLoc(m) == <<m.TargetProviderID, m.TargetBucket>>

VARIABLES
    config,         \* config.Mappings, read-only after load
    factory,        \* ids of the providers the factory holds
    source,         \* source buckets: location -> (name -> ObjectInfo or Absent)
    target,         \* target buckets: location -> set of object names
    store,          \* file_metadata: <<mapping_id, object_name>> -> row or Absent
    pc,             \* control point of main / SyncAll / SyncBuckets
    mi,             \* index of SyncAll's range loop over config.Mappings
    calls,          \* mappings SyncAll has handed to SyncBuckets in this call
    results,        \* what SyncBuckets returned for each of them
    syncAllRet,     \* what the last SyncAll returned
    sourceObjects,  \* SyncBuckets' source listing
    targetObjects,  \* SyncBuckets' target listing (names)
    todo,           \* source names the sync loop has not visited yet
    rtodo,          \* target names the removal loop has not visited yet
    syncCounter, skipCounter, errorCounter,   \* sync-phase counters
    deleteCounter, delErrorCounter,           \* removal-phase counters
    \* ---- observations of the current SyncBuckets run (reset when it starts)
    store0,         \* the store when the run started
    target0,        \* the target bucket when the run started
    gets,           \* name -> number of GetObject calls on the source
    puts,           \* name -> number of UploadObject calls on the target
    dels,           \* name -> number of DeleteObject calls on the target
    metaDels,       \* name -> number of DeleteFileMetadata calls
    xfer,           \* name -> outcome of its iteration
    upsert,         \* name -> outcome of its UpsertFileMetadata call
    dbDel,          \* name -> outcome of its DeleteFileMetadata call
    uploadFails,    \* number of UploadObject calls that failed
    otherFails,     \* whether any other provider or store call failed
    lastRun,        \* mapping_id -> how the latest finished run on it ended
    prevClean,      \* whether the run before this one on the same mapping was clean
    readers,        \* name -> streams GetObject returned and Close calls on them
    \* ---- the context the caller hands to SyncAll / SyncBuckets
    cancelled,      \* whether ctx has been cancelled
    \* ---- the SQLite file behind database.DB and the handle on it
    schemaMigrations,  \* the schema_migrations table: whether it exists, its versions
    fileTable,      \* the file_metadata table: column layout, rows, AUTOINCREMENT counter
    handle,         \* the *DB: "none", "open", "closed" or "failed" (NewDB returned an error)
    dbRet,          \* what the latest call on the database package returned
    lastWritten,        \* key -> the values last upserted and not deleted since
    disk0,          \* the file's content when the latest NewDB started
    \* ---- start-up: the configuration and the provider factory
    parsed,         \* the Config json.Unmarshal produced
    loadRet,        \* "none", or what LoadConfig returned ("nil" or the error)
    registry,       \* Factory.providers: the ids NewFactory registered
    factoryRet,     \* "none", or what NewFactory returned
    lookupRet,      \* the outcome of the latest pair of GetProvider calls
    clients         \* per entry of config.Providers: "none", "open" or "closed"

envVars  == <<config, factory, source>>
dbVars   == <<schemaMigrations, fileTable, handle, dbRet, lastWritten, disk0>>
cfgVars  == <<parsed, loadRet, registry, factoryRet, lookupRet, clients>>
auxVars  == <<cancelled, dbVars, cfgVars>>
worldVars == <<target, store>>
ctlVars  == <<pc, mi, calls, results, syncAllRet>>
runVars  == <<sourceObjects, targetObjects, todo, rtodo, syncCounter,
              skipCounter, errorCounter, deleteCounter, delErrorCounter>>
obsVars  == <<store0, target0, gets, puts, dels, metaDels, xfer, upsert,
              dbDel, uploadFails, otherFails, lastRun, prevClean, readers>>
vars == <<config, factory, source, target, store, pc, mi, calls, results,
          syncAllRet, sourceObjects, targetObjects, todo, rtodo, syncCounter,
          skipCounter, errorCounter, deleteCounter, delErrorCounter, store0,
          target0, gets, puts, dels, metaDels, xfer, upsert, dbDel,
          uploadFails, otherFails, lastRun, prevClean, readers, cancelled,
          schemaMigrations, fileTable, handle, dbRet, lastWritten, disk0,
          parsed, loadRet, registry, factoryRet, lookupRet, clients>>
coreVars == <<envVars, worldVars, ctlVars, runVars, obsVars>>

\* ------------------------------------------------------- metadata store
\* GetFileMetadata: the row, or nothing (nil, nil) when sql.ErrNoRows.
GetFileMetadata(st, mappingID, objectName) == st[<<mappingID, objectName>>]

\* UpsertFileMetadata: INSERT ... ON CONFLICT(mapping_id, object_name) DO UPDATE.
UpsertFileMetadata(st, mappingID, objectName, row) ==
    [st EXCEPT ![<<mappingID, objectName>>] = row]

\* A plausible slip: the DELETE is keyed by something that matches no row.
DeleteFileMetadata_WrongKey(st, mappingID, objectName) == st

\* DeleteFileMetadata: DELETE ... WHERE mapping_id = ? AND object_name = ?.
DeleteFileMetadata(st, mappingID, objectName) ==
    [st EXCEPT ![<<mappingID, objectName>>] = Absent]

\* ------------------------------------------------------------- helpers
\* The names a listing holds.
ListedNames(listing) == {n \in Names : listing[n] # Absent}

\* A plausible slip: the row takes the ETag the target reports for the upload.
MetadataRow_TargetETag(info, status) ==
    [ETag |-> (info.ETag % MaxEtag) + 1, LastModified |-> info.LastModified,
     Size |-> info.Size, ContentType |-> info.ContentType, SyncStatus |-> status]

\* A plausible slip: the status argument is dropped and "success" is written.
MetadataRow_AlwaysSuccess(info, status) ==
    [ETag |-> info.ETag, LastModified |-> info.LastModified,
     Size |-> info.Size, ContentType |-> info.ContentType, SyncStatus |-> "success"]

\* A plausible slip: the content type of the descriptor is not carried over.
MetadataRow_NoContentType(info, status) ==
    [ETag |-> info.ETag, LastModified |-> info.LastModified,
     Size |-> info.Size, ContentType |-> "", SyncStatus |-> status]

\* The row updateObjectMetadata builds from the source listing's descriptor.
MetadataRow(info, status) ==
    [ETag |-> info.ETag, LastModified |-> info.LastModified,
     Size |-> info.Size, ContentType |-> info.ContentType, SyncStatus |-> status]

\* A plausible slip: a failed read is logged and the row is used all the same.
StoredMetadata_IgnoresError(ok, st, mappingID, objectName) ==
    GetFileMetadata(st, mappingID, objectName)

\* storedMetadata in SyncBuckets: what db.GetFileMetadata returned; on an
\* error that is logged and nil.
StoredMetadata(ok, st, mappingID, objectName) ==
    IF ok THEN GetFileMetadata(st, mappingID, objectName) ELSE Absent

\* A plausible slip: a failed source listing is only logged, like a failed
\* target listing.
ListSourceAborts_Never(ok) == FALSE

\* "if err != nil { return fmt.Errorf(...) }" after the source listing.
ListSourceAborts(ok) == ~ok

\* A plausible slip: a failed EnsureBucketExists is only logged.
EnsureBucketAborts_Never(ok) == FALSE

\* "if err := targetProvider.EnsureBucketExists(...); err != nil { return ... }".
EnsureBucketAborts(ok) == ~ok

\* A plausible slip: the "continue" after a failed DeleteObject is missing.
ReachesMetadataDelete_Always(delOk) == TRUE

\* removeDeletedObjects: "continue // Skip DB deletion if target deletion
\* failed"; db.DeleteFileMetadata is reached after a DeleteObject that
\* returned nil.
ReachesMetadataDelete(delOk) == delOk

\* A plausible slip: a run that counted an error reports it to SyncAll.
SyncBucketsResult_ErrorOnFailures(errors, delErrors) ==
    IF errors + delErrors > 0 THEN "error" ELSE "nil"

\* "return nil" at the end of SyncBuckets, whatever the counters hold.
SyncBucketsResult(errors, delErrors) == "nil"

\* A plausible slip: the error of UploadObject is not looked at.
TransferStatus_UploadUnchecked(getOk, upOk) ==
    IF ~getOk THEN "failed_get" ELSE "success"

\* The status the transfer block of SyncBuckets hands to
\* updateObjectMetadata: the first call that failed, or success.
TransferStatus(getOk, upOk) ==
    IF ~getOk THEN "failed_get"
    ELSE IF ~upOk THEN "failed_upload" ELSE "success"

\* A plausible slip: needsSync is never cleared.
NeedsSync_Always(stored, info) == TRUE

\* A plausible slip: the comparison leaves the modification time out.
NeedsSync_IgnoresTime(stored, info) ==
    IF stored = Absent
    THEN TRUE
    ELSE ~(stored.ETag = info.ETag /\ stored.SyncStatus = "success")

\* A plausible slip: the comparison leaves the sync status out.
NeedsSync_IgnoresStatus(stored, info) ==
    IF stored = Absent
    THEN TRUE
    ELSE ~(stored.LastModified = info.LastModified /\ stored.ETag = info.ETag)

\* The comparison of SyncBuckets: a stored row is fresh when its time and etag
\* equal the source descriptor's and its last sync succeeded.
NeedsSync(stored, info) ==
    IF stored = Absent
    THEN TRUE
    ELSE ~(stored.LastModified = info.LastModified
           /\ stored.ETag = info.ETag
           /\ stored.SyncStatus = "success")

\* A variant that consults the target listing: an object the target listing
\* lacks is transferred whatever its record says.
SyncDecision_TargetAware(stored, info, listedInTarget) ==
    NeedsSync(stored, info) \/ ~listedInTarget

\* needsSync as the range loop settles it: targetObjects is in scope and is
\* not consulted.
SyncDecision(stored, info, listedInTarget) == NeedsSync(stored, info)

\* A plausible slip: the removal loop forgets the lookup in sourceObjects.
IsDeletedFromSource_NoLookup(listing, n) == TRUE

\* removeDeletedObjects: "if _, exists := sourceObjects[objName]; !exists".
IsDeletedFromSource(listing, n) == listing[n] = Absent

\* A plausible slip: the UploadObject error branch lacks its errorCounter++.
CountsAsError_GetOnly(status) == status = "failed_get"

\* errorCounter++ in the GetObject and in the UploadObject error branch.
CountsAsError(status) == status \in {"failed_get", "failed_upload"}

\* A plausible slip: the removal starts while source objects are still to be
\* handled.
SyncPassDone_Early(remaining) == TRUE

\* removeDeletedObjects is called after the range loop over sourceObjects
\* has ended.
SyncPassDone(remaining) == remaining = {}

\* A plausible slip: an object whose transfer failed is tried again at once.
RemainingAfter_RetryFailed(remaining, n, status) ==
    IF status \in {"failed_get", "failed_upload"} THEN remaining ELSE remaining \ {n}

\* A plausible slip: a failed upload ends the loop instead of continuing it.
RemainingAfter_BreakOnError(remaining, n, status) ==
    IF status = "failed_upload" THEN {} ELSE remaining \ {n}

\* The range loop goes on to the names it has not visited, whatever the
\* outcome of this one ("continue").
RemainingAfter(remaining, n, status) == remaining \ {n}

\* A plausible slip: SyncAll stops at the first mapping that fails.
NextMappingIndex_StopOnError(i, err, total) ==
    IF err = "error" THEN total + 1 ELSE i + 1

\* SyncAll's loop goes on to the next mapping, also after an error.
NextMappingIndex(i, err, total) == i + 1

ZeroCount == [n \in Names |-> 0]
NoOutcome == [n \in Names |-> "none"]

\* The mapping the current (or latest) SyncBuckets call works on.
CurMapping == config[calls[Len(calls)]]
CurID == MappingID(CurMapping)

\* Whether the current run has seen no failed call so far.
NoFailure == uploadFails = 0 /\ ~otherFails
NoReaders == [n \in Names |-> [opened |-> 0, closed |-> 0]]

\* ------------------------------------------------------ database package
\* Values of a record's non-key columns are 1..MaxVal; row ids are 1..MaxRowId.
MaxVal == 2
MaxRowId == 3

currentSchemaVersion == 2

Vals == 1..MaxVal
StatusOf(v) == IF v % 2 = 1 THEN "success" ELSE "failed_upload"

\* The *FileMetadata a caller hands to UpsertFileMetadata (its ID is unused).
Metadata(m, n, v) ==
    [mapping_id |-> m, object_name |-> n, size |-> v, last_modified |-> v,
     etag |-> v, content_type |-> v, last_synced |-> v, sync_status |-> StatusOf(v)]

\* The non-key columns of a row or of a caller's record.
Columns(r) ==
    [size |-> r.size, last_modified |-> r.last_modified, etag |-> r.etag,
     content_type |-> r.content_type, last_synced |-> r.last_synced,
     sync_status |-> r.sync_status]

\* A row of file_metadata in the current layout.
TableRow(id, md) ==
    [id |-> id, mapping_id |-> md.mapping_id, object_name |-> md.object_name,
     size |-> md.size, last_modified |-> md.last_modified, etag |-> md.etag,
     content_type |-> md.content_type, last_synced |-> md.last_synced,
     sync_status |-> md.sync_status]

\* The rows a WHERE mapping_id = ? AND object_name = ? selects.
Matching(rows, m, n) == {r \in rows : r.mapping_id = m /\ r.object_name = n}

\* A plausible slip: the DO UPDATE SET list leaves last_synced out.
UpsertStmt_KeepsLastSynced(t, md) ==
    LET hit == Matching(t.rows, md.mapping_id, md.object_name)
    IN IF hit = {}
       THEN [t EXCEPT !.rows = @ \cup {TableRow(t.seq + 1, md)}, !.seq = @ + 1]
       ELSE [t EXCEPT !.rows = (@ \ hit) \cup
                 {[TableRow(r.id, md) EXCEPT !.last_synced = r.last_synced] : r \in hit}]

\* INSERT INTO file_metadata ... ON CONFLICT(mapping_id, object_name) DO UPDATE
\* SET size, last_modified, etag, content_type, last_synced, sync_status.
UpsertStmt(t, md) ==
    LET hit == Matching(t.rows, md.mapping_id, md.object_name)
    IN IF hit = {}
       THEN [t EXCEPT !.rows = @ \cup {TableRow(t.seq + 1, md)}, !.seq = @ + 1]
       ELSE [t EXCEPT !.rows = (@ \ hit) \cup {TableRow(r.id, md) : r \in hit}]

\* A plausible slip: sql.ErrNoRows is passed on as an error.
SelectOne_NoRowsIsError(t, m, n) ==
    LET hit == Matching(t.rows, m, n)
    IN IF hit = {} THEN [err |-> "error", val |-> Absent]
       ELSE [err |-> "nil", val |-> CHOOSE r \in hit : \A x \in hit : r.id <= x.id]

\* SELECT ... WHERE mapping_id = ? AND object_name = ?, QueryRow(...).Scan:
\* the first matching row, or (nil, nil) on sql.ErrNoRows.
SelectOne(t, m, n) ==
    LET hit == Matching(t.rows, m, n)
    IN IF hit = {} THEN [err |-> "nil", val |-> Absent]
       ELSE [err |-> "nil", val |-> CHOOSE r \in hit : \A x \in hit : r.id <= x.id]

\* A plausible slip: the WHERE clause is dropped.
SelectByMapping_NoWhere(t, m) == t.rows

\* SELECT ... WHERE mapping_id = ?
SelectByMapping(t, m) == {r \in t.rows : r.mapping_id = m}

\* A plausible slip: the DELETE is keyed by mapping_id alone.
DeleteStmt_WholeMapping(t, m, n) ==
    [t EXCEPT !.rows = {r \in @ : r.mapping_id # m}]

\* DELETE FROM file_metadata WHERE mapping_id = ? AND object_name = ?
DeleteStmt(t, m, n) == [t EXCEPT !.rows = @ \ Matching(@, m, n)]

\* A plausible slip: Close returns without closing the *sql.DB.
HandleAfterClose_StaysOpen(h) == h

\* Close: db.db.Close(); every later call on the *sql.DB returns an error.
HandleAfterClose(h) == "closed"

\* ---- schema versions and migrations
EmptyTable(layout) == [layout |-> layout, rows |-> {}, seq |-> 0]

\* SELECT COALESCE(MAX(version), 0) FROM schema_migrations
MaxVersion(versions) ==
    IF versions = {} THEN 0 ELSE CHOOSE v \in versions : \A w \in versions : w <= v

\* The statement of NewDB that fails, if any.
NoFault == <<"none", 0>>
FailPoints ==
    {NoFault, <<"query", 0>>, <<"create", 0>>, <<"begin", 0>>, <<"commit", 0>>}
    \cup {<<"migration", v>> : v \in 1..currentSchemaVersion}
    \cup {<<"record", v>> : v \in 1..currentSchemaVersion}

\* A plausible slip: the synthesized key leaves the bucket columns out.
LegacyMappingID_NoBucket(r, layout) == "default:->default:"

\* 'default:' || bucket_name || '->default:' || bucket_name, respectively
\* 'default:' || source_bucket || '->default:' || target_bucket.
LegacyMappingID(r, layout) ==
    IF layout = "bucket_name"
    THEN "default:" \o r.bucket_name \o "->default:" \o r.bucket_name
    ELSE "default:" \o r.source_bucket \o "->default:" \o r.target_bucket

\* The SELECT list of the copy: the new key and the unchanged columns.
Rekeyed(r, layout) ==
    [mapping_id |-> LegacyMappingID(r, layout), object_name |-> r.object_name,
     size |-> r.size, last_modified |-> r.last_modified, etag |-> r.etag,
     content_type |-> r.content_type, last_synced |-> r.last_synced,
     sync_status |-> r.sync_status]

\* INSERT OR IGNORE INTO file_metadata_new ... SELECT ... FROM file_metadata:
\* the rows are copied in rowid order, a row that violates
\* UNIQUE(mapping_id, object_name) is skipped, ids are assigned afresh.
RECURSIVE CopyRows(_, _, _)
CopyRows(old, layout, new) ==
    IF old = {}
    THEN new
    ELSE LET r == CHOOSE x \in old : \A y \in old : x.id <= y.id
             md == Rekeyed(r, layout)
         IN IF Matching(new.rows, md.mapping_id, md.object_name) # {}
            THEN CopyRows(old \ {r}, layout, new)
            ELSE CopyRows(old \ {r}, layout,
                          [new EXCEPT !.rows = @ \cup {TableRow(new.seq + 1, md)},
                                      !.seq = @ + 1])

\* A plausible slip: migration 2 rebuilds file_metadata without looking for
\* the mapping_id column first.
applyMigration_NoDetect(t, version) ==
    IF version = 1
    THEN IF t.layout = "none" THEN EmptyTable("mapping_id") ELSE t
    ELSE IF t.layout \in {"none", "mapping_id"} THEN EmptyTable("mapping_id")
         ELSE CopyRows(t.rows, t.layout, EmptyTable("mapping_id"))

\* applyMigration(tx, version): each case looks at the table before it acts.
applyMigration(t, version) ==
    IF version = 1
    THEN IF t.layout = "none" THEN EmptyTable("mapping_id") ELSE t
    ELSE IF t.layout = "none" THEN EmptyTable("mapping_id")
         ELSE IF t.layout = "mapping_id" THEN t
         ELSE CopyRows(t.rows, t.layout, EmptyTable("mapping_id"))

\* The loop of applyMigrations inside the transaction: what the transaction
\* holds when the loop ends or a statement fails.
RECURSIVE RunMigrations(_, _, _, _)
RunMigrations(migs, t, v, failAt) ==
    IF v > currentSchemaVersion
    THEN [migs |-> migs, table |-> t, fault |-> NoFault]
    ELSE IF failAt = <<"migration", v>>
    THEN [migs |-> migs, table |-> t, fault |-> failAt]
    ELSE IF failAt = <<"record", v>>
    THEN [migs |-> migs, table |-> applyMigration(t, v), fault |-> failAt]
    ELSE RunMigrations([migs EXCEPT !.versions = @ \cup {v}],
                       applyMigration(t, v), v + 1, failAt)

\* A plausible slip: the migrations run outside the transaction, so what ran
\* before the failing statement stays.
Persisted_NoTransaction(before, tx) ==
    [migs |-> tx.migs, table |-> tx.table]

\* What the file holds once applyMigrations has returned: the transaction's
\* content after tx.Commit(), the content from before tx.Begin() otherwise
\* (tx.Rollback(), or the transaction is never committed).
Persisted(before, tx) ==
    IF tx.fault = NoFault THEN [migs |-> tx.migs, table |-> tx.table] ELSE before

\* A plausible slip: the loop starts at currentVersion, not one above it.
applyMigrations_FromCurrent(migs, t, currentVersion, failAt) ==
    LET before == [migs |-> migs, table |-> t]
    IN IF currentVersion >= currentSchemaVersion
       THEN [disk |-> before, fault |-> NoFault]
       ELSE IF failAt = <<"begin", 0>>
       THEN [disk |-> before, fault |-> failAt]
       ELSE LET tx == RunMigrations(migs, t, currentVersion, failAt)
                end == IF tx.fault = NoFault /\ failAt = <<"commit", 0>>
                       THEN [tx EXCEPT !.fault = failAt] ELSE tx
            IN [disk |-> Persisted(before, end), fault |-> end.fault]

\* applyMigrations(currentVersion)
applyMigrations(migs, t, currentVersion, failAt) ==
    LET before == [migs |-> migs, table |-> t]
    IN IF currentVersion >= currentSchemaVersion
       THEN [disk |-> before, fault |-> NoFault]
       ELSE IF failAt = <<"begin", 0>>
       THEN [disk |-> before, fault |-> failAt]
       ELSE LET tx == RunMigrations(migs, t, currentVersion + 1, failAt)
                end == IF tx.fault = NoFault /\ failAt = <<"commit", 0>>
                       THEN [tx EXCEPT !.fault = failAt] ELSE tx
            IN [disk |-> Persisted(before, end), fault |-> end.fault]

\* initializeSchema: schema_migrations is created when missing, outside any
\* transaction; then the pending migrations run.
initializeSchema(migs, t, failAt) ==
    IF failAt = <<"query", 0>>
    THEN [disk |-> [migs |-> migs, table |-> t], fault |-> failAt]
    ELSE IF ~migs.exists
    THEN IF failAt = <<"create", 0>>
         THEN [disk |-> [migs |-> migs, table |-> t], fault |-> failAt]
         ELSE applyMigrations([exists |-> TRUE, versions |-> {}], t, 0, failAt)
    ELSE applyMigrations(migs, t, MaxVersion(migs.versions), failAt)

\* ---- the calls of the package
Ret(op, m, n, err, val, fault, afterClose) ==
    [op |-> op, m |-> m, n |-> n, err |-> err, val |-> val, fault |-> fault,
     afterClose |-> afterClose]
NoCall == Ret("none", "", "", "nil", Absent, NoFault, FALSE)

Disk == [migs |-> schemaMigrations, table |-> fileTable]

\* NewDB(dbPath): sql.Open, initializeSchema and, on error, db.Close().  main
\* opens the file once and exits when that fails; the next start opens again.
NewDB ==
    /\ handle \in {"none", "failed"}
    /\ \E failAt \in FailPoints :
         LET out == initializeSchema(schemaMigrations, fileTable, failAt)
             err == IF out.fault = NoFault THEN "nil" ELSE "error"
         IN /\ schemaMigrations' = out.disk.migs
            /\ fileTable' = out.disk.table
            /\ handle' = IF err = "nil" THEN "open" ELSE "failed"
            /\ dbRet' = Ret("open", "", "", err, Absent, out.fault, FALSE)
    /\ disk0' = Disk
    /\ UNCHANGED <<lastWritten, cancelled, cfgVars, coreVars>>

\* db.UpsertFileMetadata(metadata); new rows stop at id MaxRowId.
DB_UpsertFileMetadata(md) ==
    /\ handle \in {"open", "closed"}
    /\ IF handle = "open"
       THEN /\ \/ Matching(fileTable.rows, md.mapping_id, md.object_name) # {}
               \/ fileTable.seq < MaxRowId
            /\ fileTable' = UpsertStmt(fileTable, md)
            /\ lastWritten' = [lastWritten EXCEPT ![<<md.mapping_id, md.object_name>>] =
                                              Columns(md)]
            /\ dbRet' = Ret("upsert", md.mapping_id, md.object_name, "nil", Absent,
                            NoFault, dbRet.afterClose)
       ELSE /\ dbRet' = Ret("upsert", md.mapping_id, md.object_name, "error",
                            Absent, NoFault, dbRet.afterClose)
            /\ UNCHANGED <<fileTable, lastWritten>>
    /\ UNCHANGED <<schemaMigrations, handle, disk0, cancelled, cfgVars, coreVars>>

\* db.GetFileMetadata(mappingID, objectName)
DB_GetFileMetadata(m, n) ==
    /\ handle \in {"open", "closed"}
    /\ LET out == IF handle = "open" THEN SelectOne(fileTable, m, n)
                  ELSE [err |-> "error", val |-> Absent]
       IN dbRet' = Ret("get", m, n, out.err, out.val, NoFault, dbRet.afterClose)
    /\ UNCHANGED <<schemaMigrations, fileTable, handle, lastWritten, disk0,
                   cancelled, cfgVars, coreVars>>

\* db.ListFileMetadataByMapping(mappingID)
DB_ListFileMetadataByMapping(m) ==
    /\ handle \in {"open", "closed"}
    /\ dbRet' = IF handle = "open"
                THEN Ret("list", m, "", "nil", SelectByMapping(fileTable, m),
                         NoFault, dbRet.afterClose)
                ELSE Ret("list", m, "", "error", {}, NoFault, dbRet.afterClose)
    /\ UNCHANGED <<schemaMigrations, fileTable, handle, lastWritten, disk0,
                   cancelled, cfgVars, coreVars>>

\* db.DeleteFileMetadata(mappingID, objectName)
DB_DeleteFileMetadata(m, n) ==
    /\ handle \in {"open", "closed"}
    /\ IF handle = "open"
       THEN /\ fileTable' = DeleteStmt(fileTable, m, n)
            /\ lastWritten' = [lastWritten EXCEPT ![<<m, n>>] = Absent]
            /\ dbRet' = Ret("delete", m, n, "nil", Absent, NoFault, dbRet.afterClose)
       ELSE /\ dbRet' = Ret("delete", m, n, "error", Absent, NoFault,
                            dbRet.afterClose)
            /\ UNCHANGED <<fileTable, lastWritten>>
    /\ UNCHANGED <<schemaMigrations, handle, disk0, cancelled, cfgVars, coreVars>>

\* db.Close()
DB_Close ==
    /\ handle = "open"
    /\ handle' = HandleAfterClose(handle)
    /\ dbRet' = Ret("close", "", "", "nil", Absent, NoFault, TRUE)
    /\ UNCHANGED <<schemaMigrations, fileTable, lastWritten, disk0, cancelled, cfgVars, coreVars>>

\* The keys the callers of the package use, and "nothing written yet".
DbKeys == {<<MappingID(M1), "a.txt">>, <<MappingID(M1), "b.txt">>,
           <<MappingID(M2), "a.txt">>}
NoneWritten == [k \in DbKeys |-> Absent]

\* While the engine runs, main holds an open, migrated database; the engine's
\* view of its rows is the variable store.
DbIdle ==
    /\ schemaMigrations = [exists |-> TRUE, versions |-> 1..currentSchemaVersion]
    /\ fileTable = EmptyTable("mapping_id")
    /\ handle = "open"
    /\ dbRet = NoCall
    /\ lastWritten = NoneWritten
    /\ disk0 = Disk

\* ------------------------------------------------- configuration and factory
\* A configuration file holds at most MaxProviders providers and MaxMappings
\* mappings.
MaxProviders == 2
MaxMappings == 1

KnownTypes == {"gcs", "aws", "azure", "minio"}
ProviderIDs == {"p1", "p2"}

\* config.ProviderConfig: Blocks names the type-specific blocks that are not nil.
ProviderConfig(id, type, blocks) == [ID |-> id, Type |-> type, Blocks |-> blocks]
ProviderConfigs ==
    {ProviderConfig(id, type, blocks) :
        id \in ProviderIDs, type \in KnownTypes \cup {"ftp"},
        blocks \in {{}, {"gcs"}, {"aws", "azure", "minio"}}}
ProviderLists == UNION {[1..k -> ProviderConfigs] : k \in 0..MaxProviders}
MappingLists ==
    UNION {[1..k -> {BucketMapping(sp, "src", tp, "dst") :
                        sp \in ProviderIDs, tp \in ProviderIDs}] : k \in 0..MaxMappings}

\* The loop of validateConfig over config.Providers: the ids seen so far.
RECURSIVE CheckProviders(_, _, _)
CheckProviders(providers, i, idMap) ==
    IF i > Len(providers)
    THEN [err |-> "nil", idMap |-> idMap]
    ELSE LET provider == providers[i]
         IN IF provider.ID \in idMap
            THEN [err |-> "duplicate provider ID", idMap |-> idMap]
            ELSE IF provider.Type \notin KnownTypes
            THEN [err |-> "unknown provider type", idMap |-> idMap]
            ELSE IF provider.Type \notin provider.Blocks
            THEN [err |-> "provider has no configuration", idMap |-> idMap]
            ELSE CheckProviders(providers, i + 1, idMap \cup {provider.ID})

\* A plausible slip: only the source provider of a mapping is looked up.
RECURSIVE CheckMappings_SourceOnly(_, _, _)
CheckMappings_SourceOnly(mappings, i, idMap) ==
    IF i > Len(mappings)
    THEN "nil"
    ELSE IF mappings[i].SourceProviderID \notin idMap
    THEN "non-existent source provider"
    ELSE CheckMappings_SourceOnly(mappings, i + 1, idMap)

\* The loop of validateConfig over config.Mappings.
RECURSIVE CheckMappings(_, _, _)
CheckMappings(mappings, i, idMap) ==
    IF i > Len(mappings)
    THEN "nil"
    ELSE IF mappings[i].SourceProviderID \notin idMap
    THEN "non-existent source provider"
    ELSE IF mappings[i].TargetProviderID \notin idMap
    THEN "non-existent target provider"
    ELSE CheckMappings(mappings, i + 1, idMap)

\* validateConfig(config): "nil" or the error it returns.
validateConfig(c) ==
    IF Len(c.Providers) = 0
    THEN "no provider"
    ELSE LET seen == CheckProviders(c.Providers, 1, {})
         IN IF seen.err # "nil" THEN seen.err
            ELSE IF Len(c.Mappings) = 0 THEN "no bucket mapping"
            ELSE CheckMappings(c.Mappings, 1, seen.idMap)

\* The entries whose client factory.providers holds once the first upTo
\* entries are registered: a later entry of the same id replaces an earlier.
Held(providers, upTo) ==
    {j \in 1..upTo : \A k \in (j + 1)..upTo : providers[k].ID # providers[j].ID}

\* The clients after the first upTo entries were created and those in
\* closedSet were closed.
ClientsAfter(providers, upTo, closedSet) ==
    [j \in 1..Len(providers) |->
        IF j \in closedSet THEN "closed"
        ELSE IF j <= upTo THEN "open"
        ELSE "none"]

\* The Config literal of SaveDefaultConfig: four providers, each with the
\* block of its type, and one mapping between two ids that are not among them.
DefaultConfig ==
    [Providers |-> <<ProviderConfig("gcp", "gcs", {"gcs"}),
                     ProviderConfig("minio", "minio", {"minio"}),
                     ProviderConfig("aws", "aws", {"aws"}),
                     ProviderConfig("azure", "azure", {"azure"})>>,
     Mappings |-> <<BucketMapping("gcs-example", "gcs-source-bucket",
                                  "minio-local", "minio-target-bucket")>>]

\* json.MarshalIndent(config): the document's keys are the json tags, and a
\* block that is nil is left out (omitempty).
MarshalIndent(c) ==
    [providers |->
        [i \in 1..Len(c.Providers) |->
            [k \in {"id", "type"} \cup c.Providers[i].Blocks |->
                IF k = "id" THEN c.Providers[i].ID
                ELSE IF k = "type" THEN c.Providers[i].Type
                ELSE "object"]],
     mappings |->
        [i \in 1..Len(c.Mappings) |->
            [sourceProviderId |-> c.Mappings[i].SourceProviderID,
             sourceBucket |-> c.Mappings[i].SourceBucket,
             targetProviderId |-> c.Mappings[i].TargetProviderID,
             targetBucket |-> c.Mappings[i].TargetBucket]]]

\* json.Unmarshal(data, &config): a block is non-nil when its key is there.
Unmarshal(data) ==
    [Providers |->
        [i \in 1..Len(data.providers) |->
            ProviderConfig(data.providers[i]["id"], data.providers[i]["type"],
                           DOMAIN data.providers[i] \ {"id", "type"})],
     Mappings |->
        [i \in 1..Len(data.mappings) |->
            BucketMapping(data.mappings[i].sourceProviderId,
                          data.mappings[i].sourceBucket,
                          data.mappings[i].targetProviderId,
                          data.mappings[i].targetBucket)]]

\* NewFactory's loop: the ids registered when it returns, "error" when a
\* provider has no block, an unknown type, or its client cannot be created
\* (failAt is the index of the provider whose client fails, 0 for none).
\* Only the last of the three calls factory.Close() before it returns.
RECURSIVE RegisterProviders(_, _, _, _)
RegisterProviders(providers, i, failAt, registered) ==
    IF i > Len(providers)
    THEN [err |-> "nil", providers |-> registered,
          clients |-> ClientsAfter(providers, Len(providers), {})]
    ELSE IF \/ providers[i].Type \notin KnownTypes
            \/ providers[i].Type \notin providers[i].Blocks
    THEN [err |-> "error", providers |-> {},
          clients |-> ClientsAfter(providers, i - 1, {})]
    ELSE IF failAt = i
    THEN [err |-> "error", providers |-> {},
          clients |-> ClientsAfter(providers, i - 1, Held(providers, i - 1))]
    ELSE RegisterProviders(providers, i + 1, failAt,
                           registered \cup {providers[i].ID})

\* Factory.GetProvider(id)
GetProvider(providers, id) == IF id \in providers THEN "nil" ELSE "error"

\* LoadConfig(configPath): parse, then validateConfig.
LoadConfig ==
    /\ loadRet = "none"
    /\ loadRet' = validateConfig(parsed)
    /\ UNCHANGED <<parsed, registry, factoryRet, lookupRet, clients, cancelled, dbVars, coreVars>>

\* main --generate-config: SaveDefaultConfig overwrites the file, and the
\* next start of main reads it back.
SaveDefaultConfig ==
    /\ loadRet = "none"
    /\ parsed' = Unmarshal(MarshalIndent(DefaultConfig))
    /\ UNCHANGED <<loadRet, registry, factoryRet, lookupRet, clients, cancelled, dbVars, coreVars>>

\* storage.NewFactory(ctx, cfg, logger) on the configuration at hand.
NewFactoryCall ==
    /\ factoryRet = "none"
    /\ \E failAt \in 0..Len(parsed.Providers) :
         LET out == RegisterProviders(parsed.Providers, 1, failAt, {})
         IN /\ registry' = out.providers
            /\ factoryRet' = out.err
            /\ clients' = out.clients
    /\ UNCHANGED <<parsed, loadRet, lookupRet, cancelled, dbVars, coreVars>>

\* main calls NewFactory once LoadConfig succeeded, and exits when it failed.
NewFactory ==
    /\ loadRet = "nil"
    /\ NewFactoryCall

\* The package's tests and other callers hand NewFactory a Config they
\* built themselves, which validateConfig never saw.
NewFactoryDirect ==
    /\ loadRet = "none"
    /\ NewFactoryCall

\* Factory.Close(): every provider the map holds is closed.
FactoryClose ==
    /\ factoryRet = "nil"
    /\ clients' = ClientsAfter(parsed.Providers, Len(parsed.Providers),
                               Held(parsed.Providers, Len(parsed.Providers)))
    /\ factoryRet' = "closed"
    /\ UNCHANGED <<parsed, loadRet, registry, lookupRet, cancelled, dbVars, coreVars>>

\* The two lookups SyncBuckets starts with, for mapping i of the configuration.
LookupProviders(i) ==
    /\ factoryRet = "nil"
    /\ i \in 1..Len(parsed.Mappings)
    /\ LET mapping == parsed.Mappings[i]
       IN lookupRet' =
            [mapping |-> i,
             err |-> IF GetProvider(registry, mapping.SourceProviderID) = "nil"
                     THEN GetProvider(registry, mapping.TargetProviderID)
                     ELSE "error"]
    /\ UNCHANGED <<parsed, loadRet, registry, factoryRet, clients, cancelled, dbVars, coreVars>>

\* While the engine runs, the configuration has been loaded long ago.
CfgIdle ==
    /\ parsed = [Providers |-> <<>>, Mappings |-> <<>>]
    /\ loadRet = "none"
    /\ registry = {}
    /\ factoryRet = "none"
    /\ lookupRet = [mapping |-> 0, err |-> "none"]
    /\ clients = <<>>

\* ------------------------------------------------------------ initial
\* The store, the buckets and the configuration exist before the process
\* starts; the store and the target may hold anything earlier runs left.
InitCore(cfg, srcNames, srcInfos, rows, tgtSets) ==
    /\ config = cfg
    /\ factory = {cfg[i].SourceProviderID : i \in 1..Len(cfg)}
                 \cup {cfg[i].TargetProviderID : i \in 1..Len(cfg)}
    /\ source \in [SourceLocs -> [Names -> srcInfos \cup {Absent}]]
    /\ \A l \in SourceLocs :
         IF \E i \in 1..Len(cfg) : SourceLoc(cfg[i]) = l
         THEN ListedNames(source[l]) \subseteq srcNames
         ELSE ListedNames(source[l]) = {}
    /\ target \in [TargetLocs -> SUBSET Names]
    /\ \A l \in TargetLocs :
         IF \E i \in 1..Len(cfg) : TargetLoc(cfg[i]) = l
         THEN target[l] \in tgtSets
         ELSE target[l] = {}
    /\ \E held \in [{MappingID(cfg[i]) : i \in 1..Len(cfg)} \X Names
                      -> rows \cup {Absent}] :
         store = [k \in MappingIDs \X Names |->
                    IF k \in DOMAIN held THEN held[k] ELSE Absent]
    /\ pc = "main"
    /\ mi = 0
    /\ calls = <<>>
    /\ results = <<>>
    /\ syncAllRet = "none"
    /\ sourceObjects = [n \in Names |-> Absent]
    /\ targetObjects = {}
    /\ todo = {}
    /\ rtodo = {}
    /\ syncCounter = 0 /\ skipCounter = 0 /\ errorCounter = 0
    /\ deleteCounter = 0 /\ delErrorCounter = 0
    /\ store0 = store
    /\ target0 = {}
    /\ gets = ZeroCount /\ puts = ZeroCount /\ dels = ZeroCount
    /\ metaDels = ZeroCount
    /\ xfer = NoOutcome /\ upsert = NoOutcome /\ dbDel = NoOutcome
    /\ uploadFails = 0
    /\ otherFails = FALSE
    /\ lastRun = [k \in MappingIDs |-> "none"]
    /\ prevClean = FALSE
    /\ readers = NoReaders

\* A start of the driver: the context is live and the database is open.
InitWith(cfg, srcNames, srcInfos, rows, tgtSets) ==
    /\ InitCore(cfg, srcNames, srcInfos, rows, tgtSets)
    /\ cancelled = FALSE
    /\ DbIdle
    /\ CfgIdle

SrcInfos == {[ETag |-> 1, LastModified |-> 1, Size |-> 1, ContentType |-> "text/plain"]}

\* The records earlier runs left on objects of this source: size and content
\* type, which the engine never compares, are the source's.
StoredRows ==
    {r \in FileMetadata :
        /\ r.LastModified \in Times
        /\ \E i \in SrcInfos : r.Size = i.Size /\ r.ContentType = i.ContentType}

Init == InitWith(<<M1>>, Names, SrcInfos, StoredRows, SUBSET Names)

\* --------------------------------------------------------------- driver
\* main: the initial SyncAll and every SyncAll of the ticker loop.  After
\* cancel() main returns and calls SyncAll no more.
SyncAllStart ==
    /\ pc = "main"
    /\ ~cancelled
    /\ pc' = "syncAll"
    /\ mi' = 1
    /\ calls' = <<>>
    /\ results' = <<>>
    /\ syncAllRet' = "none"
    /\ UNCHANGED <<auxVars, envVars, worldVars, runVars, obsVars>>

\* A plausible slip: the loop body never closes the stream it was given.
DeferredClose_None(rs) == rs

\* The calls "defer reader.Close()" queued run when SyncBuckets returns: one
\* Close on every stream GetObject returned.
DeferredClose(rs) ==
    [n \in Names |-> [rs[n] EXCEPT !.closed = @ + rs[n].opened]]

\* SyncBuckets' return to SyncAll's loop: the error is logged, the loop goes on.
ReturnToSyncAll(err) ==
    /\ pc' = "syncAll"
    /\ readers' = DeferredClose(readers)
    /\ mi' = NextMappingIndex(mi, err, Len(config))
    /\ results' = Append(results, err)
    /\ lastRun' = [lastRun EXCEPT ![CurID] =
                     IF err = "nil" /\ NoFailure THEN "clean" ELSE "dirty"]
    /\ UNCHANGED <<calls, syncAllRet>>

\* SyncAll's loop body: call SyncBuckets on the next mapping.  SyncBuckets
\* first resolves both providers; an unknown id makes it return an error.
SyncBucketsBegin ==
    /\ pc = "syncAll"
    /\ mi <= Len(config)
    /\ LET m == config[mi]
           known == m.SourceProviderID \in factory /\ m.TargetProviderID \in factory
       IN /\ calls' = Append(calls, mi)
          /\ prevClean' = (lastRun[MappingID(m)] = "clean")
          /\ readers' = NoReaders
          /\ store0' = store
          /\ target0' = target[TargetLoc(m)]
          /\ gets' = ZeroCount /\ puts' = ZeroCount /\ dels' = ZeroCount
          /\ metaDels' = ZeroCount
          /\ xfer' = NoOutcome /\ upsert' = NoOutcome /\ dbDel' = NoOutcome
          /\ uploadFails' = 0
          /\ otherFails' = ~known
          /\ sourceObjects' = [n \in Names |-> Absent]
          /\ targetObjects' = {}
          /\ todo' = {} /\ rtodo' = {}
          /\ syncCounter' = 0 /\ skipCounter' = 0 /\ errorCounter' = 0
          /\ deleteCounter' = 0 /\ delErrorCounter' = 0
          /\ IF known
             THEN /\ pc' = "listSource"
                  /\ UNCHANGED <<mi, results, lastRun>>
             ELSE /\ pc' = "syncAll"
                  /\ mi' = NextMappingIndex(mi, "error", Len(config))
                  /\ results' = Append(results, "error")
                  /\ lastRun' = [lastRun EXCEPT ![MappingID(m)] = "dirty"]
          /\ UNCHANGED <<auxVars, envVars, worldVars, syncAllRet>>

\* SyncAll: the loop is over, return nil.
SyncAllReturn ==
    /\ pc = "syncAll"
    /\ mi > Len(config)
    /\ pc' = "main"
    /\ syncAllRet' = "nil"
    /\ UNCHANGED <<auxVars, envVars, worldVars, mi, calls, results, runVars, obsVars>>

\* ---------------------------------------------------------- SyncBuckets
\* sourceProvider.ListObjects: a failure aborts the mapping.
ListSource ==
    /\ pc = "listSource"
    /\ \E ok \in BOOLEAN :
         IF ~ListSourceAborts(ok)
         THEN /\ sourceObjects' = IF ok THEN source[SourceLoc(CurMapping)]
                                  ELSE [n \in Names |-> Absent]
              /\ pc' = "listTarget"
              /\ otherFails' = (otherFails \/ ~ok)
              /\ UNCHANGED <<mi, calls, results, syncAllRet, lastRun, readers>>
         ELSE /\ otherFails' = TRUE
              /\ ReturnToSyncAll("error")
              /\ UNCHANGED sourceObjects
    /\ UNCHANGED <<auxVars, envVars, worldVars, targetObjects, todo, rtodo, syncCounter,
                   skipCounter, errorCounter, deleteCounter, delErrorCounter,
                   store0, target0, gets, puts, dels, metaDels, xfer, upsert,
                   dbDel, uploadFails, prevClean>>

\* targetProvider.ListObjects: a failure is only logged; the providers return
\* a nil map with the error, so the listing stays empty.
ListTarget ==
    /\ pc = "listTarget"
    /\ \E ok \in BOOLEAN :
         /\ targetObjects' = IF ok THEN target[TargetLoc(CurMapping)] ELSE {}
         /\ otherFails' = (otherFails \/ ~ok)
    /\ pc' = "ensureBucket"
    /\ UNCHANGED <<auxVars, envVars, worldVars, mi, calls, results, syncAllRet,
                   sourceObjects, todo, rtodo, syncCounter, skipCounter,
                   errorCounter, deleteCounter, delErrorCounter, store0, target0,
                   gets, puts, dels, metaDels, xfer, upsert, dbDel, uploadFails,
                   lastRun, prevClean, readers>>

\* targetProvider.EnsureBucketExists: a failure aborts the mapping; otherwise
\* the range loop over sourceObjects starts.
EnsureBucket ==
    /\ pc = "ensureBucket"
    /\ \E ok \in BOOLEAN :
         IF ~EnsureBucketAborts(ok)
         THEN /\ pc' = "syncLoop"
              /\ todo' = ListedNames(sourceObjects)
              /\ otherFails' = (otherFails \/ ~ok)
              /\ UNCHANGED <<mi, calls, results, syncAllRet, lastRun, readers>>
         ELSE /\ otherFails' = TRUE
              /\ ReturnToSyncAll("error")
              /\ UNCHANGED todo
    /\ UNCHANGED <<auxVars, envVars, worldVars, sourceObjects, targetObjects, rtodo,
                   syncCounter, skipCounter, errorCounter, deleteCounter,
                   delErrorCounter, store0, target0, gets, puts, dels, metaDels,
                   xfer, upsert, dbDel, uploadFails, prevClean>>

\* One iteration of "for objName, srcObjInfo := range sourceObjects": the
\* store lookup, the decision and, when needed, GetObject, UploadObject and
\* updateObjectMetadata.  Go ranges over the map in any order.  An upload
\* that fails may already have written the object (the GCS client fails
\* after the writer is closed when the attributes cannot be read back).
SyncObject(n) ==
    /\ pc = "syncLoop"
    /\ n \in todo
    /\ \E metaOk, getOk, upOk, written, upsertOk \in BOOLEAN :
         LET info == sourceObjects[n]
             storedMetadata == StoredMetadata(metaOk, store, CurID, n)
             needsSync == SyncDecision(storedMetadata, info, n \in targetObjects)
             status == TransferStatus(getOk, upOk)
             tloc == UploadLoc(CurMapping)
         IN IF ~needsSync
            THEN /\ skipCounter' = skipCounter + 1
                 /\ xfer' = [xfer EXCEPT ![n] = "skipped"]
                 /\ otherFails' = (otherFails \/ ~metaOk)
                 /\ todo' = RemainingAfter(todo, n, "skipped")
                 /\ UNCHANGED <<target, store, syncCounter, errorCounter, gets,
                                puts, upsert, uploadFails, readers>>
            ELSE /\ gets' = [gets EXCEPT ![n] = @ + 1]
                 /\ puts' = IF getOk THEN [puts EXCEPT ![n] = @ + 1] ELSE puts
                 /\ readers' = IF getOk THEN [readers EXCEPT ![n].opened = @ + 1]
                               ELSE readers
                 /\ target' = IF getOk /\ (upOk \/ written) /\ tloc \in DOMAIN target
                              THEN [target EXCEPT ![tloc] = @ \cup {n}]
                              ELSE target
                 /\ store' = IF upsertOk
                             THEN UpsertFileMetadata(store, CurID, n,
                                                     MetadataRow(info, status))
                             ELSE store
                 /\ upsert' = [upsert EXCEPT ![n] = IF upsertOk THEN "ok" ELSE "failed"]
                 /\ xfer' = [xfer EXCEPT ![n] = status]
                 /\ syncCounter' = IF status = "success" THEN syncCounter + 1
                                   ELSE syncCounter
                 /\ errorCounter' = IF CountsAsError(status) THEN errorCounter + 1
                                    ELSE errorCounter
                 /\ uploadFails' = IF getOk /\ ~upOk THEN uploadFails + 1
                                   ELSE uploadFails
                 /\ otherFails' = (otherFails \/ ~metaOk \/ ~getOk \/ ~upsertOk)
                 /\ todo' = RemainingAfter(todo, n, status)
                 /\ UNCHANGED skipCounter
    /\ UNCHANGED <<auxVars, envVars, ctlVars, sourceObjects, targetObjects, rtodo,
                   deleteCounter, delErrorCounter, store0, target0, dels,
                   metaDels, dbDel, lastRun, prevClean>>

\* The sync loop is over: removeDeletedObjects starts ranging over targetObjects.
BeginRemove ==
    /\ pc = "syncLoop"
    /\ SyncPassDone(todo)
    /\ pc' = "removeLoop"
    /\ rtodo' = targetObjects
    /\ UNCHANGED <<auxVars, envVars, worldVars, mi, calls, results, syncAllRet,
                   sourceObjects, targetObjects, todo, syncCounter, skipCounter,
                   errorCounter, deleteCounter, delErrorCounter, obsVars>>

\* One iteration of "for objName := range targetObjects" in
\* removeDeletedObjects.
RemoveObject(n) ==
    /\ pc = "removeLoop"
    /\ n \in rtodo
    /\ \E delOk, dbOk \in BOOLEAN :
         IF ~IsDeletedFromSource(sourceObjects, n)
         THEN UNCHANGED <<target, store, deleteCounter, delErrorCounter, dels,
                          metaDels, dbDel, otherFails>>
         ELSE /\ dels' = [dels EXCEPT ![n] = @ + 1]
              /\ delErrorCounter' = IF delOk THEN delErrorCounter
                                     ELSE delErrorCounter + 1
              /\ target' = IF delOk
                           THEN [target EXCEPT ![TargetLoc(CurMapping)] = @ \ {n}]
                           ELSE target
              /\ IF ~ReachesMetadataDelete(delOk)
                 THEN /\ otherFails' = TRUE
                      /\ UNCHANGED <<store, deleteCounter, metaDels, dbDel>>
                 ELSE /\ metaDels' = [metaDels EXCEPT ![n] = @ + 1]
                      /\ store' = IF dbOk THEN DeleteFileMetadata(store, CurID, n)
                                  ELSE store
                      /\ dbDel' = [dbDel EXCEPT ![n] = IF dbOk THEN "ok" ELSE "failed"]
                      /\ deleteCounter' = deleteCounter + 1
                      /\ otherFails' = (otherFails \/ ~dbOk \/ ~delOk)
    /\ rtodo' = rtodo \ {n}
    /\ UNCHANGED <<auxVars, envVars, ctlVars, sourceObjects, targetObjects, todo,
                   syncCounter, skipCounter, errorCounter, store0, target0, gets,
                   puts, xfer, upsert, uploadFails, lastRun, prevClean, readers>>

\* removeDeletedObjects is over and SyncBuckets returns nil.
SyncBucketsReturn ==
    /\ pc = "removeLoop"
    /\ rtodo = {}
    /\ ReturnToSyncAll(SyncBucketsResult(errorCounter, delErrorCounter))
    /\ UNCHANGED <<auxVars, envVars, worldVars, runVars, store0, target0, gets, puts,
                   dels, metaDels, xfer, upsert, dbDel, uploadFails, otherFails,
                   prevClean>>

Next ==
    \/ SyncAllStart
    \/ SyncBucketsBegin
    \/ SyncAllReturn
    \/ ListSource
    \/ ListTarget
    \/ EnsureBucket
    \/ \E n \in Names : SyncObject(n)
    \/ BeginRemove
    \/ \E n \in Names : RemoveObject(n)
    \/ SyncBucketsReturn

Spec == Init /\ [][Next]_vars

\* Two mappings of one source bucket that holds at most one object, started
\* with an empty store: the driver's loop over config.Mappings.
InitDriver == InitWith(<<M1, M2>>, {"a.txt"}, SrcInfos, {}, SUBSET Names)

SpecDriver == InitDriver /\ [][Next]_vars

\* main calls SyncAll on every tick and every call it makes returns, so a
\* step that is possible is eventually taken.
\* The repeated runs start with a target that holds every name.
InitLive == InitWith(<<M1>>, Names, SrcInfos, StoredRows, {Names})

LiveSpec == InitLive /\ [][Next]_vars /\ WF_vars(Next)

\* Two mappings that differ in three of their four fields and whose
\* provider ids validateConfig accepts, started with an empty store and empty
\* targets; each source holds at most a.txt.
InitCollide == InitWith(<<M3, M4>>, {"a.txt"}, SrcInfos, {}, {{}})

SpecCollide == InitCollide /\ [][Next]_vars

\* Two mappings of one source bucket that start from the same records on
\* a.txt; the target of the first is empty, that of the second holds anything.
InitPair ==
    /\ InitWith(<<M1, M2>>, {"a.txt"}, SrcInfos, StoredRows, SUBSET Names)
    /\ target[TargetLoc(M1)] = {}
    /\ store[<<MappingID(M1), "a.txt">>] = store[<<MappingID(M2), "a.txt">>]
    /\ store[<<MappingID(M1), "b.txt">>] = Absent
    /\ store[<<MappingID(M2), "b.txt">>] = Absent

SpecPair == InitPair /\ [][Next]_vars

\* One mapping whose source holds at most a.txt, started with any record the
\* store can hold on it: every case of the comparison in SyncBuckets.
InitDecide ==
    /\ InitWith(<<M1>>, {"a.txt"}, SrcInfos, FileMetadata, SUBSET Names)
    /\ store[<<MappingID(M1), "b.txt">>] = Absent

SpecDecide == InitDecide /\ [][Next]_vars

\* cancel(): the caller of SyncAll / SyncBuckets cancels the context it handed
\* in (main does so on SIGINT/SIGTERM); a context stays cancelled.
CancelContext ==
    /\ ~cancelled
    /\ cancelled' = TRUE
    /\ UNCHANGED <<dbVars, cfgVars, coreVars>>

NextCancel ==
    \/ CancelContext
    \/ SyncAllStart
    \/ SyncBucketsBegin
    \/ SyncAllReturn
    \/ ListSource
    \/ ListTarget
    \/ EnsureBucket
    \/ \E n \in Names : SyncObject(n)
    \/ BeginRemove
    \/ \E n \in Names : RemoveObject(n)
    \/ SyncBucketsReturn

\* Runs under a context that may be cancelled at any moment, started with an
\* empty store and an empty target.
InitCancel == InitWith(<<M1>>, Names, SrcInfos, {}, {{}})

SpecCancel == InitCancel /\ [][NextCancel]_vars

\* ------------------------------------------------- the database package alone
\* Neither SyncAll nor the context takes part.
SyncIdle == InitCore(<<M1>>, {}, SrcInfos, {}, {{}}) /\ cancelled = FALSE /\ CfgIdle

\* A file that does not exist yet, or one an earlier open has fully migrated.
InitDB ==
    /\ SyncIdle
    /\ schemaMigrations \in {[exists |-> FALSE, versions |-> {}],
                             [exists |-> TRUE, versions |-> 1..currentSchemaVersion]}
    /\ fileTable = IF schemaMigrations.exists THEN EmptyTable("mapping_id")
                   ELSE EmptyTable("none")
    /\ handle = "none"
    /\ dbRet = NoCall
    /\ lastWritten = NoneWritten
    /\ disk0 = Disk

NextDB ==
    \/ NewDB
    \/ \E k \in DbKeys, v \in Vals : DB_UpsertFileMetadata(Metadata(k[1], k[2], v))
    \/ \E k \in DbKeys : DB_GetFileMetadata(k[1], k[2])
    \/ \E m \in MappingIDs : DB_ListFileMetadataByMapping(m)
    \/ \E k \in DbKeys : DB_DeleteFileMetadata(k[1], k[2])
    \/ DB_Close

SpecDB == InitDB /\ [][NextDB]_vars

\* ---- files written by earlier versions of the program
\* The keys of the rows such a file may hold, in rowid order.
BucketKeys == <<<<"src", "a.txt">>, <<"src", "b.txt">>, <<"dst", "a.txt">>>>
PairKeys == <<<<"src", "dst", "a.txt">>, <<"src", "dst", "b.txt">>,
              <<"src", "bak", "a.txt">>>>
CurrentKeys == <<<<MappingID(M1), "a.txt">>, <<MappingID(M1), "b.txt">>,
                 <<MappingID(M2), "a.txt">>>>

\* Row i of a table in the given layout, its columns holding v.
RowOf(layout, i, v) ==
    IF layout = "bucket_name"
    THEN [id |-> i, bucket_name |-> BucketKeys[i][1], object_name |-> BucketKeys[i][2],
          size |-> v, last_modified |-> v, etag |-> v, content_type |-> v,
          last_synced |-> v, sync_status |-> StatusOf(v)]
    ELSE IF layout = "source_bucket"
    THEN [id |-> i, source_bucket |-> PairKeys[i][1], target_bucket |-> PairKeys[i][2],
          object_name |-> PairKeys[i][3],
          size |-> v, last_modified |-> v, etag |-> v, content_type |-> v,
          last_synced |-> v, sync_status |-> StatusOf(v)]
    ELSE TableRow(i, Metadata(CurrentKeys[i][1], CurrentKeys[i][2], v))

\* A table whose row i is absent when f[i] = 0 and holds f[i] otherwise.
TableOf(layout, f) ==
    [layout |-> layout,
     rows |-> {RowOf(layout, i, f[i]) : i \in {j \in DOMAIN f : f[j] # 0}},
     seq |-> Len(BucketKeys)]

Fillings == [1..Len(BucketKeys) -> 0..MaxVal]
NoMigrations == [exists |-> FALSE, versions |-> {}]

FreshDisks ==
    {[migs |-> mg, table |-> EmptyTable("none")] :
        mg \in {NoMigrations, [exists |-> TRUE, versions |-> {}]}}
LegacyDisks ==
    {[migs |-> mg, table |-> TableOf(l, f)] :
        mg \in {NoMigrations, [exists |-> TRUE, versions |-> {}],
                [exists |-> TRUE, versions |-> {1}]},
        l \in {"bucket_name", "source_bucket"}, f \in Fillings}
CurrentDisks ==
    {[migs |-> mg, table |-> TableOf("mapping_id", f)] :
        mg \in {[exists |-> TRUE, versions |-> {1}],
                [exists |-> TRUE, versions |-> 1..currentSchemaVersion]},
        f \in Fillings}

\* A file a later release of the program has written.
NewerDisks ==
    {[migs |-> [exists |-> TRUE, versions |-> 1..(currentSchemaVersion + 1)],
      table |-> TableOf("mapping_id", f)] : f \in Fillings}

\* A file whose table an interrupted or external upgrade has already brought
\* to the current layout while no version is recorded.
InterruptedDisks ==
    {[migs |-> mg, table |-> TableOf("mapping_id", f)] :
        mg \in {NoMigrations, [exists |-> TRUE, versions |-> {}]},
        f \in Fillings}

InitMigrate ==
    /\ SyncIdle
    /\ \E d \in FreshDisks \cup LegacyDisks \cup CurrentDisks \cup NewerDisks
                \cup InterruptedDisks :
         /\ schemaMigrations = d.migs
         /\ fileTable = d.table
    /\ handle = "none"
    /\ dbRet = NoCall
    /\ lastWritten = NoneWritten
    /\ disk0 = Disk

\* main has returned, its deferred db.Close() done, and the program is
\* started again on the same file.
Restart ==
    /\ handle = "closed"
    /\ handle' = "none"
    /\ UNCHANGED <<schemaMigrations, fileTable, dbRet, lastWritten, disk0,
                   cancelled, cfgVars, coreVars>>

NextMigrate ==
    \/ NewDB
    \/ DB_Close
    \/ Restart

SpecMigrate == InitMigrate /\ [][NextMigrate]_vars

\* ------------------------------------------------- configuration alone
\* Any file within the bounds is loaded, and main goes as far as the lookups.
InitConfig ==
    /\ InitCore(<<M1>>, {}, SrcInfos, {}, {{}})
    /\ cancelled = FALSE
    /\ DbIdle
    /\ parsed \in [Providers : ProviderLists, Mappings : MappingLists]
    /\ loadRet = "none"
    /\ registry = {}
    /\ factoryRet = "none"
    /\ lookupRet = [mapping |-> 0, err |-> "none"]
    /\ clients = <<>>

NextConfig ==
    \/ LoadConfig
    \/ NewFactory
    \/ \E i \in 1..MaxMappings : LookupProviders(i)

SpecConfig == InitConfig /\ [][NextConfig]_vars

\* ------------------------------------------- the generated configuration
\* Whatever the file held, --generate-config may overwrite it before a start.
NextGenerate ==
    \/ SaveDefaultConfig
    \/ LoadConfig

SpecGenerate == InitConfig /\ [][NextGenerate]_vars

\* --------------------------------------------------- the factory alone
\* NewFactory on any Config within the bounds, and Close on what it returned.
NextFactory ==
    \/ NewFactoryDirect
    \/ FactoryClose

SpecFactory == InitConfig /\ [][NextFactory]_vars

TypeOK ==
    /\ pc \in {"main", "syncAll", "listSource", "listTarget", "ensureBucket",
               "syncLoop", "removeLoop"}
    /\ todo \subseteq Names /\ rtodo \subseteq Names
    /\ \A k \in DOMAIN store : store[k] \in FileMetadata \cup {Absent}

\* ================================================================ claims
\* Vocabulary of the claims, stated over the observations of a run.
RunDone == Len(calls) > 0 /\ Len(results) = Len(calls)
Finished == RunDone /\ results[Len(results)] = "nil"
CleanRun == Finished /\ NoFailure
SyncPhaseOver == Len(calls) > 0 /\ (pc = "removeLoop" \/ Finished)
Src == source[SourceLoc(CurMapping)]
SrcNames == ListedNames(Src)
Tgt == target[TargetLoc(CurMapping)]
Row(n) == store[<<CurID, n>>]
Row0(n) == store0[<<CurID, n>>]
\* A record that makes the engine skip the object: success, same etag and time.
Fresh(row, info) ==
    /\ row # Absent
    /\ row.SyncStatus = "success"
    /\ row.ETag = info.ETag
    /\ row.LastModified = info.LastModified
\* The names the run's listings show in the target and not in the source.
StaleListed == targetObjects \ ListedNames(sourceObjects)

\* C1 (as stated): after a run in which no call failed, every object of the
\* source listing that was absent from the target has been uploaded exactly
\* once and has a success record equal to the source descriptor, and the
\* target holds exactly the names of the source listing, whatever the store
\* held before.
C1_Convergence ==
    CleanRun =>
      /\ \A n \in SrcNames \ target0 :
           puts[n] = 1 /\ Fresh(Row(n), Src[n])
      /\ Tgt = SrcNames

\* C2: a clean run that directly follows a clean run of the same mapping
\* uploads nothing, skips every source object and deletes nothing.
C2_Idempotence ==
    (CleanRun /\ prevClean) =>
      /\ syncCounter = 0
      /\ skipCounter = Cardinality(SrcNames)
      /\ deleteCounter = 0
      /\ \A n \in Names : gets[n] = 0 /\ puts[n] = 0 /\ dels[n] = 0

C2_Witness ==
    CleanRun /\ prevClean /\ skipCounter = 2

\* C3 (as stated): in a run that reaches the deletion pass, every listed
\* target name absent from the source listing whose target delete succeeded
\* is gone from the target, has no metadata record and is counted as removed.
C3_DeletionAsStated ==
    Finished =>
      /\ \A n \in StaleListed :
           /\ dels[n] = 1
           /\ dbDel[n] # "none" => (n \notin Tgt /\ Row(n) = Absent)
      /\ deleteCounter = Cardinality({n \in StaleListed : dbDel[n] # "none"})

\* C3 (amended): as above, but the record is gone only when the store's
\* delete succeeded too; a failed store delete leaves the record while the
\* object is still deleted from the target and counted as removed.
C3_Deletion ==
    Finished =>
      /\ \A n \in StaleListed :
           /\ dels[n] = 1
           /\ dbDel[n] # "none" => n \notin Tgt
           /\ dbDel[n] = "ok" => Row(n) = Absent
           /\ dbDel[n] = "failed" => Row(n) = Row0(n)
      /\ deleteCounter = Cardinality({n \in StaleListed : dbDel[n] # "none"})

C3_Witness ==
    /\ Finished
    /\ \E n \in StaleListed : dbDel[n] = "ok" /\ Row0(n) # Absent
    /\ deleteCounter >= 1

\* C4: in every state of every run, a target delete or a metadata delete has
\* only been issued for names absent from the run's source listing and
\* present in its target listing, and no name is both uploaded and deleted
\* in one run.
C4_DeletionSafety ==
    \A n \in Names :
      /\ (dels[n] > 0 \/ metaDels[n] > 0) =>
           (sourceObjects[n] = Absent /\ n \in targetObjects)
      /\ ~(puts[n] > 0 /\ dels[n] > 0)

C4_Witness ==
    /\ Finished
    /\ \E n \in Names : dels[n] = 1 /\ metaDels[n] = 1
    /\ \E n \in Names : puts[n] = 1 /\ n \in targetObjects

\* C5: once the sync loop of a run is over, every source object whose record
\* had status failed_get or failed_upload when the run started has had one
\* GetObject call and, unless that failed, one UploadObject call, also when
\* the record's etag and time equal the source descriptor's.
C5_RetryAfterFailure ==
    SyncPhaseOver =>
      \A n \in ListedNames(sourceObjects) :
        (Row0(n) # Absent /\ Row0(n).SyncStatus \in {"failed_get", "failed_upload"}) =>
          /\ gets[n] = 1
          /\ xfer[n] # "failed_get" => puts[n] = 1

C5_Witness ==
    /\ SyncPhaseOver
    /\ \E n \in ListedNames(sourceObjects) :
         /\ Row0(n) # Absent
         /\ Row0(n).SyncStatus = "failed_upload"
         /\ Row0(n).ETag = Src[n].ETag
         /\ Row0(n).LastModified = Src[n].LastModified
         /\ puts[n] = 1

\* C6: after a run in which exactly one upload failed and no other call did,
\* every other source object was skipped if its record was fresh and was
\* otherwise uploaded once and recorded as success, and the sync-phase error
\* count is 1.
C6_PartialFailureIsolation ==
    (Finished /\ uploadFails = 1 /\ ~otherFails) =>
      /\ errorCounter = 1
      /\ \A n \in SrcNames :
           xfer[n] # "failed_upload" =>
             IF Fresh(Row0(n), Src[n])
             THEN xfer[n] = "skipped" /\ puts[n] = 0 /\ Row(n) = Row0(n)
             ELSE xfer[n] = "success" /\ puts[n] = 1
                  /\ Fresh(Row(n), Src[n])

C6_Witness ==
    /\ Finished /\ uploadFails = 1 /\ ~otherFails
    /\ \E n \in SrcNames : xfer[n] = "failed_upload"
    /\ \E n \in SrcNames : xfer[n] = "success"

\* C7: SyncAll hands the mappings to SyncBuckets in configuration order,
\* each at most once while it runs; when it has returned it has returned
\* nil and has called SyncBuckets for every mapping, whatever the earlier
\* calls returned.
C7_DriverIsolation ==
    /\ Len(calls) <= Len(config)
    /\ \A i \in 1..Len(calls) : calls[i] = i
    /\ syncAllRet # "none" =>
         /\ syncAllRet = "nil"
         /\ Len(calls) = Len(config)
         /\ Len(results) = Len(config)

C7_Witness ==
    /\ pc = "main"
    /\ syncAllRet = "nil"
    /\ calls = <<1, 2>>
    /\ results = <<"error", "nil">>

\* C8 (as stated): after any run, every source object whose transfer was
\* attempted and failed has a record whose status is failed_get or
\* failed_upload.
C8_NoSilentDropAsStated ==
    RunDone =>
      \A n \in Names :
        xfer[n] \in {"failed_get", "failed_upload"} =>
          (Row(n) # Absent /\ Row(n).SyncStatus \in {"failed_get", "failed_upload"})

\* C8 (amended): every source object whose transfer failed and whose
\* metadata upsert succeeded has a record with the status of the failed step
\* and the source descriptor's etag and time, which the next run does not
\* take for fresh; when the upsert failed as well, the store is as it was.
C8_NoSilentDrop ==
    RunDone =>
      \A n \in Names :
        xfer[n] \in {"failed_get", "failed_upload"} =>
          /\ upsert[n] = "ok" =>
               /\ Row(n) # Absent
               /\ Row(n).SyncStatus = xfer[n]
               /\ Row(n).ETag = sourceObjects[n].ETag
               /\ Row(n).LastModified = sourceObjects[n].LastModified
               /\ ~Fresh(Row(n), Src[n])
          /\ upsert[n] = "failed" => Row(n) = Row0(n)
          /\ upsert[n] # "none"

C8_Witness ==
    /\ Finished
    /\ \E n \in Names : xfer[n] = "failed_get" /\ upsert[n] = "ok"
    /\ \E n \in Names : xfer[n] = "failed_upload" /\ upsert[n] = "ok"
                        /\ Fresh(Row0(n), Src[n])

\* Every source object of every configured mapping has a fresh record.
AllFresh ==
    \A i \in 1..Len(config) :
      \A n \in ListedNames(source[SourceLoc(config[i])]) :
        Fresh(store[<<MappingID(config[i]), n>>], source[SourceLoc(config[i])][n])

\* C9: with an unchanging source, if from some point on no call fails, then
\* from some point on every source object has a success record equal to its
\* source descriptor and no run uploads anything.
C9_EventualConvergence ==
    <>[]NoFailure => <>[](AllFresh /\ \A n \in Names : puts[n] = 0)

C9_Witness ==
    /\ CleanRun
    /\ AllFresh
    /\ lastRun[CurID] = "clean"
    /\ \E n \in SrcNames :
         Row0(n) # Absent /\ Row0(n).SyncStatus = "failed_upload" /\ puts[n] = 1

\* C10 (as stated): after a run in which no call failed, the store holds no
\* record under the mapping key for a name absent from the source listing.
C10_RecordLifecycle ==
    CleanRun => \A n \in Names \ SrcNames : Row(n) = Absent

\* C11: once the context is cancelled, an iteration of the sync loop starts
\* no GetObject and no UploadObject, for this object or any later one.
C11_Cancellation ==
    [][(cancelled /\ pc = "syncLoop") => (gets' = gets /\ puts' = puts)]_vars

\* ---- the database package (SpecDB)
CrudOps == {"get", "upsert", "list", "delete"}
RetKey == <<dbRet.m, dbRet.n>>
\* What a returned row says apart from its id.
Told(r) == <<r.mapping_id, r.object_name, Columns(r)>>

\* C12: a get of a key that was upserted and not deleted since returns the
\* record last upserted under it, every non-key field taken from that record,
\* and the table never holds two rows under one (mapping key, object name).
C12_UpsertGetRoundTrip ==
    /\ \A k \in DbKeys : Cardinality(Matching(fileTable.rows, k[1], k[2])) <= 1
    /\ (dbRet.op = "get" /\ ~dbRet.afterClose /\ lastWritten[RetKey] # Absent)
         => /\ dbRet.err = "nil"
            /\ dbRet.val # Absent
            /\ Told(dbRet.val) = <<dbRet.m, dbRet.n, lastWritten[RetKey]>>

\* A get has returned the one record the table holds, with the highest values.
C12_Witness ==
    /\ dbRet.op = "get"
    /\ dbRet.val # Absent
    /\ dbRet.val.size = MaxVal
    /\ dbRet.val.id = 1
    /\ fileTable.seq = 1
    /\ Cardinality(fileTable.rows) = 1

\* C13: a get of a key that holds no record (never upserted, or deleted since)
\* returns no record and no error.
C13_GetAbsent ==
    (dbRet.op = "get" /\ ~dbRet.afterClose /\ lastWritten[RetKey] = Absent)
        => (dbRet.err = "nil" /\ dbRet.val = Absent)

\* A get has found nothing after every record was deleted again.
C13_Witness ==
    /\ dbRet.op = "get"
    /\ dbRet.err = "nil"
    /\ dbRet.val = Absent
    /\ fileTable.seq > 0
    /\ fileTable.rows = {}

\* C14: a delete on an open store returns no error, leaves every record under
\* another key as it was and leaves no record under its own key; on an absent
\* key it changes nothing.
C14_DeleteIdempotent ==
    [][(dbRet'.op = "delete" /\ ~dbRet'.afterClose)
         => /\ dbRet'.err = "nil"
            /\ fileTable'.rows \subseteq fileTable.rows
            /\ \A r \in fileTable.rows :
                 (r \in fileTable'.rows) <=>
                     (<<r.mapping_id, r.object_name>> # <<dbRet'.m, dbRet'.n>>)
            /\ fileTable'.seq = fileTable.seq]_vars

\* A delete has removed a record while another record stayed.
C14_Witness ==
    /\ dbRet.op = "delete"
    /\ dbRet.err = "nil"
    /\ Cardinality(fileTable.rows) = 1
    /\ fileTable.seq = 2
    /\ \E r \in fileTable.rows : r.mapping_id = dbRet.m

\* C15: listByMapping returns exactly the records last upserted and not deleted
\* since under that mapping key, one per object name, none of another mapping.
C15_ListByMapping ==
    (dbRet.op = "list" /\ ~dbRet.afterClose)
        => LET live == {k \in DbKeys : k[1] = dbRet.m /\ lastWritten[k] # Absent}
           IN /\ dbRet.err = "nil"
              /\ {Told(r) : r \in dbRet.val} = {<<k[1], k[2], lastWritten[k]>> : k \in live}
              /\ Cardinality(dbRet.val) = Cardinality(live)

\* A list has returned two records while the table holds a third of another mapping.
C15_Witness ==
    /\ dbRet.op = "list"
    /\ Cardinality(dbRet.val) = 2
    /\ Cardinality(fileTable.rows) = 3

\* C16: once close() has returned, every get, upsert, listByMapping and delete
\* returns an error and changes no record.
C16_ClosedStore ==
    [][(dbRet.afterClose /\ dbRet'.op \in CrudOps)
         => (dbRet'.err = "error" /\ fileTable' = fileTable)]_vars

\* An upsert has failed on a closed store that holds records.
C16_Witness ==
    /\ dbRet.afterClose
    /\ dbRet.op = "upsert"
    /\ dbRet.err = "error"
    /\ fileTable.rows # {}

\* ---- opening the store (SpecMigrate)
\* The schema version a file records: the highest applied version, 0 without one.
SchemaVersionOf(migs) ==
    IF migs.exists /\ migs.versions # {} THEN MaxVersion(migs.versions) ELSE 0
LegacyLayouts == {"bucket_name", "source_bucket"}
\* The composite key a legacy row is expected under.
KeyOfLegacy(r, layout) ==
    IF layout = "bucket_name"
    THEN "default:" \o r.bucket_name \o "->default:" \o r.bucket_name
    ELSE "default:" \o r.source_bucket \o "->default:" \o r.target_bucket

\* C17: when NewDB returns an error, the file records the schema version it
\* recorded before the call and file_metadata is as it was before the call.
C17_AtomicUpgrade ==
    (dbRet.op = "open" /\ dbRet.err = "error")
        => /\ handle = "failed"
           /\ SchemaVersionOf(schemaMigrations) = SchemaVersionOf(disk0.migs)
           /\ fileTable = disk0.table

\* The second migration's version could not be recorded after the legacy rows
\* had been copied inside the transaction.
C17_Witness ==
    /\ dbRet.op = "open"
    /\ dbRet.fault = <<"record", 2>>
    /\ disk0.table.layout = "bucket_name"
    /\ disk0.table.rows # {}
    /\ SchemaVersionOf(disk0.migs) = 0

\* C18: an open of a legacy file in which no statement fails succeeds, leaves
\* the current layout at the current version, and every legacy row is there
\* with its object name and non-key fields unchanged under the key made of
\* its bucket columns; the number of rows is unchanged.
C18_MigrationSafety ==
    (dbRet.op = "open" /\ dbRet.fault = NoFault
        /\ disk0.table.layout \in LegacyLayouts)
        => /\ dbRet.err = "nil"
           /\ fileTable.layout = "mapping_id"
           /\ SchemaVersionOf(schemaMigrations) = currentSchemaVersion
           /\ Cardinality(fileTable.rows) = Cardinality(disk0.table.rows)
           /\ \A r0 \in disk0.table.rows : \E r \in fileTable.rows :
                 /\ r.mapping_id = KeyOfLegacy(r0, disk0.table.layout)
                 /\ r.object_name = r0.object_name
                 /\ Columns(r) = Columns(r0)

\* A file with three rows keyed by source_bucket and target_bucket was opened.
C18_Witness ==
    /\ dbRet.op = "open"
    /\ dbRet.err = "nil"
    /\ disk0.table.layout = "source_bucket"
    /\ Cardinality(disk0.table.rows) = 3
    /\ Cardinality(fileTable.rows) = 3

\* ---- the mapping key (SpecDriver)
\* The keys the two configured mappings are expected under.
ExpectedKey(m) == IF m = M1 THEN "gcs:src->s3:dst" ELSE "gcs:src->s3:bak"

\* C19: in every run, each record SyncBuckets writes or deletes lies under the
\* key sourceProviderId:sourceBucket->targetProviderId:targetBucket of the
\* run's mapping, and an object is skipped only on the record under that key.
C19_MappingKey ==
    [][/\ \A k \in DOMAIN store :
            store'[k] # store[k] => (Len(calls) > 0 /\ k[1] = ExpectedKey(CurMapping))
       /\ \A n \in Names :
            (xfer'[n] = "skipped" /\ xfer[n] # "skipped")
                => /\ <<ExpectedKey(CurMapping), n>> \in DOMAIN store
                   /\ Fresh(store[<<ExpectedKey(CurMapping), n>>], sourceObjects[n])]_vars

\* Both mappings have written their record of a.txt, each under its own key,
\* and a later run has skipped the object.
C19_Witness ==
    /\ <<"gcs:src->s3:dst", "a.txt">> \in DOMAIN store
    /\ store[<<"gcs:src->s3:dst", "a.txt">>] # Absent
    /\ store[<<"gcs:src->s3:bak", "a.txt">>] # Absent
    /\ Len(calls) = 2
    /\ xfer["a.txt"] = "skipped"

\* ---- configuration (SpecConfig)
\* The ids of the providers a configuration lists.
ConfiguredIDs(c) == {c.Providers[i].ID : i \in 1..Len(c.Providers)}
\* What the specification asks of an accepted configuration.
Accepts(c) ==
    /\ Len(c.Providers) >= 1
    /\ \A i, j \in 1..Len(c.Providers) :
         i # j => c.Providers[i].ID # c.Providers[j].ID
    /\ \A i \in 1..Len(c.Providers) :
         /\ c.Providers[i].Type \in {"gcs", "aws", "azure", "minio"}
         /\ c.Providers[i].Type \in c.Providers[i].Blocks
    /\ Len(c.Mappings) >= 1
    /\ \A i \in 1..Len(c.Mappings) :
         /\ c.Mappings[i].SourceProviderID \in ConfiguredIDs(c)
         /\ c.Mappings[i].TargetProviderID \in ConfiguredIDs(c)

\* C20: LoadConfig accepts a configuration exactly when it has a provider,
\* distinct provider ids, a known type with its block for every provider, a
\* mapping, and configured provider ids in every mapping; and on a factory
\* built from an accepted configuration no provider lookup of a mapping fails.
C20_ValidateConfig ==
    /\ loadRet # "none" => (loadRet = "nil" <=> Accepts(parsed))
    /\ lookupRet.err # "error"

\* Both providers of a mapping across two providers have been looked up.
C20_Witness ==
    /\ lookupRet.err = "nil"
    /\ Len(parsed.Providers) = 2
    /\ parsed.Mappings[1].SourceProviderID # parsed.Mappings[1].TargetProviderID

\* What C21 names as the reasons to transfer: no record, another etag,
\* another modification time, or a last sync that did not succeed.
MustTransfer(row, info) ==
    \/ row = Absent
    \/ row.ETag # info.ETag
    \/ row.LastModified # info.LastModified
    \/ row.SyncStatus # "success"
\* The step handles source object n of the sync loop.
Handles(n) == pc = "syncLoop" /\ n \in todo /\ n \notin todo'
\* The step skips n / starts a transfer of n.
Skips(n) == xfer'[n] = "skipped" /\ skipCounter' = skipCounter + 1 /\ gets' = gets
Transfers(n) == gets'[n] = gets[n] + 1 /\ skipCounter' = skipCounter

\* C21: the loop starts a transfer of a source object whenever its record is
\* absent or differs from the listing's descriptor in etag or modification
\* time or has a status other than "success"; it skips an object only when
\* none of these holds, and does skip it then when the run had no failed call.
C21_SyncDecision ==
    [][\A n \in Names :
         Handles(n) =>
           /\ MustTransfer(Row(n), sourceObjects[n]) => Transfers(n)
           /\ Skips(n) => ~MustTransfer(Row(n), sourceObjects[n])
           /\ (~MustTransfer(Row(n), sourceObjects[n]) /\ ~otherFails')
                => Skips(n)
           /\ Skips(n) \/ Transfers(n)]_vars

\* A record that differs from the descriptor in its modification time alone
\* made the run fetch the object.
C21_Witness ==
    /\ pc = "syncLoop"
    /\ \E n \in Names :
         /\ sourceObjects[n] # Absent
         /\ Row0(n) # Absent
         /\ Row0(n).ETag = sourceObjects[n].ETag
         /\ Row0(n).SyncStatus = "success"
         /\ Row0(n).LastModified # sourceObjects[n].LastModified
         /\ gets[n] = 1
         /\ xfer[n] = "success"

\* The step leaves the object's record, the whole store and the target as
\* they were and issues no GetObject, no UploadObject and no upsert.
NothingDone ==
    /\ gets' = gets /\ puts' = puts /\ upsert' = upsert
    /\ store' = store /\ target' = target
    /\ syncCounter' = syncCounter /\ errorCounter' = errorCounter

\* C22: an iteration that skips its object issues no GetObject, no
\* UploadObject and no store upsert and leaves the store and the target
\* unchanged; an object with an up-to-date success record in a run without a
\* failed call is handled that way.
C22_SkipIsFrame ==
    [][\A n \in Names :
         Handles(n) =>
           /\ xfer'[n] = "skipped" => NothingDone
           /\ (~MustTransfer(Row(n), sourceObjects[n]) /\ ~otherFails')
                => NothingDone]_vars

\* An object that is in the target with a success record was skipped: record
\* and target object are those of the start of the run.
C22_Witness ==
    /\ pc = "syncLoop"
    /\ \E n \in Names :
         /\ xfer[n] = "skipped"
         /\ Row0(n) # Absent /\ Row(n) = Row0(n)
         /\ n \in target0 /\ n \in Tgt
         /\ gets[n] = 0 /\ puts[n] = 0 /\ upsert[n] = "none"

\* The record of n after the step is the listing's descriptor with status st.
RecordsAs(n, st) ==
    /\ Row(n)' # Absent
    /\ Row(n)'.SyncStatus = st
    /\ Row(n)'.Size = sourceObjects[n].Size
    /\ Row(n)'.LastModified = sourceObjects[n].LastModified
    /\ Row(n)'.ETag = sourceObjects[n].ETag
    /\ Row(n)'.ContentType = sourceObjects[n].ContentType
\* GetObject and UploadObject were both called for n and neither failed.
BothReturned(n) ==
    /\ gets'[n] = gets[n] + 1
    /\ puts'[n] = puts[n] + 1
    /\ uploadFails' = uploadFails
    /\ errorCounter' = errorCounter

\* C23: an iteration upserts a record with status success only when its
\* GetObject and its UploadObject both returned without error, and the
\* record then carries size, modification time, etag and content type of the
\* source listing; an iteration counted as an error writes no success record.
C23_SuccessOnlyAfterTransfer ==
    [][\A n \in Names :
         (Handles(n) /\ upsert'[n] = "ok") =>
           /\ Row(n)'.SyncStatus = "success" =>
                (BothReturned(n) /\ RecordsAs(n, "success")
                 /\ syncCounter' = syncCounter + 1)
           /\ BothReturned(n) => RecordsAs(n, "success")
           /\ errorCounter' # errorCounter => Row(n)'.SyncStatus # "success"]_vars

\* A completed transfer replaced a failed record by a success record that
\* equals the descriptor.
C23_Witness ==
    /\ pc = "syncLoop"
    /\ \E n \in Names :
         /\ sourceObjects[n] # Absent
         /\ Row0(n) # Absent /\ Row0(n).SyncStatus = "failed_upload"
         /\ Row0(n).Size # sourceObjects[n].Size
         /\ gets[n] = 1 /\ puts[n] = 1 /\ upsert[n] = "ok"
         /\ uploadFails = 0
         /\ Row(n) = [ETag |-> sourceObjects[n].ETag,
                      LastModified |-> sourceObjects[n].LastModified,
                      Size |-> sourceObjects[n].Size,
                      ContentType |-> sourceObjects[n].ContentType,
                      SyncStatus |-> "success"]

\* GetObject was called for n and failed / returned and UploadObject failed.
GetFailed(n) == gets'[n] = gets[n] + 1 /\ puts'[n] = puts[n]
UploadFailed(n) ==
    gets'[n] = gets[n] + 1 /\ puts'[n] = puts[n] + 1 /\ uploadFails' = uploadFails + 1
\* The iteration calls the store's upsert, and a store that takes it holds
\* the listing's descriptor with status st; one more error is counted and the
\* loop goes on with the objects that are left.
RecordsFailure(n, st) ==
    /\ upsert'[n] # "none"
    /\ upsert'[n] = "ok" => RecordsAs(n, st)
    /\ xfer'[n] = st
    /\ errorCounter' = errorCounter + 1 /\ syncCounter' = syncCounter
    /\ pc' = "syncLoop" /\ todo' = todo \ {n}

\* C24: an iteration whose GetObject fails upserts failed_get and calls no
\* UploadObject; one whose GetObject returns and whose UploadObject fails
\* upserts failed_upload; either record carries the listing's size,
\* modification time, etag and content type, the error counter grows by one
\* and the loop continues with the next object.
C24_FailureStatus ==
    [][\A n \in Names :
         Handles(n) =>
           /\ GetFailed(n) => RecordsFailure(n, "failed_get")
           /\ UploadFailed(n) => RecordsFailure(n, "failed_upload")]_vars

\* A failed GetObject replaced a success record by a failed_get record, and
\* the loop went on: the other object's failed UploadObject is recorded too.
C24_Witness ==
    /\ pc = "syncLoop"
    /\ \E n, m \in Names :
         /\ n # m
         /\ sourceObjects[n] # Absent /\ sourceObjects[m] # Absent
         /\ Row0(n) # Absent /\ Row0(n).SyncStatus = "success"
         /\ gets[n] = 1 /\ puts[n] = 0 /\ upsert[n] = "ok"
         /\ Row(n) = [Row0(n) EXCEPT !.SyncStatus = "failed_get"]
         /\ gets[m] = 1 /\ puts[m] = 1 /\ upsert[m] = "ok"
         /\ Row(m).SyncStatus = "failed_upload"
         /\ errorCounter = 2

\* SyncBuckets hands an error to SyncAll, which goes on with its loop.
ReturnsError == pc' = "syncAll" /\ results' = Append(results, "error")
\* Since SyncBuckets was entered no object call and no store write was made.
NoObjectCall ==
    /\ \A n \in Names :
         /\ gets[n] = 0 /\ puts[n] = 0 /\ dels[n] = 0 /\ metaDels[n] = 0
         /\ xfer[n] = "none" /\ upsert[n] = "none" /\ dbDel[n] = "none"
    /\ store = store0 /\ Tgt = target0
    /\ todo = {} /\ rtodo = {}
    /\ syncCounter = 0 /\ skipCounter = 0 /\ errorCounter = 0
    /\ deleteCounter = 0 /\ delErrorCounter = 0

\* C25: a failed source listing makes SyncBuckets return an error at once:
\* the step leads straight back to SyncAll, past the target listing and
\* EnsureBucketExists, and neither before nor in it was an object fetched,
\* uploaded or deleted or the store read or written.
C25_SourceListingFailure ==
    [][(pc = "listSource" /\ otherFails') =>
         /\ ReturnsError
         /\ NoObjectCall /\ NoObjectCall'
         /\ targetObjects = {} /\ targetObjects' = {}
         /\ store' = store /\ target' = target]_vars

\* SyncBuckets returned an error on a source that holds an object missing
\* from the target: nothing was listed in the target and nothing transferred.
C25_Witness ==
    /\ pc = "syncAll"
    /\ results = <<"error">>
    /\ Src["a.txt"] # Absent /\ "a.txt" \notin Tgt /\ "b.txt" \in Tgt
    /\ sourceObjects = [n \in Names |-> Absent]
    /\ targetObjects = {}
    /\ NoObjectCall

\* C26: a failed target listing only leaves the listing empty: the run goes
\* on to EnsureBucketExists, then handles every listed source object and
\* deletes nothing; a failed EnsureBucketExists makes SyncBuckets return an
\* error before any object was transferred or any record written.
C26_TargetListingFailure ==
    [][/\ (pc = "listTarget" /\ otherFails') =>
            (pc' = "ensureBucket" /\ targetObjects' = {} /\ results' = results)
       /\ (pc = "ensureBucket" /\ pc' = "syncLoop") =>
            (todo' = ListedNames(sourceObjects) /\ results' = results)
       /\ (pc = "ensureBucket" /\ ~otherFails /\ otherFails') => ReturnsError
       /\ (pc = "ensureBucket" /\ pc' # "syncLoop") =>
            (ReturnsError /\ NoObjectCall /\ NoObjectCall')
       /\ (pc = "syncLoop" /\ pc' = "removeLoop") => rtodo' = targetObjects
       /\ (pc \in {"syncLoop", "removeLoop"} /\ targetObjects = {}) =>
            (dels' = dels /\ metaDels' = metaDels /\ Tgt \subseteq Tgt'
             /\ deleteCounter' = deleteCounter)]_vars

\* The target holds a name the source lacks, its listing failed, and the run
\* finished: the source object was transferred and nothing was deleted.
C26_Witness ==
    /\ Finished
    /\ targetObjects = {}
    /\ \E n \in target0 : Src[n] = Absent /\ n \in Tgt /\ dels[n] = 0
    /\ \E m \in SrcNames : xfer[m] = "success" /\ puts[m] = 1
    /\ deleteCounter = 0 /\ delErrorCounter = 0

\* C27: past a successful source listing and EnsureBucketExists SyncBuckets
\* returns only nil, however many object or store calls failed: an error is
\* returned only by runs that handled no object; in a run that returned,
\* every listed source object was handled exactly once and every listed
\* target name the source lacks had its delete issued.
C27_NoEscalation ==
    [][/\ (pc \in {"syncLoop", "removeLoop"} /\ results' # results) =>
            (pc = "removeLoop" /\ rtodo = {} /\ results' = Append(results, "nil"))
       /\ (RunDone /\ ~Finished) => NoObjectCall
       /\ Finished =>
            /\ \A n \in ListedNames(sourceObjects) :
                 xfer[n] # "none" /\ gets[n] <= 1 /\ puts[n] <= 1
            /\ syncCounter + skipCounter + errorCounter
                 = Cardinality(ListedNames(sourceObjects))
            /\ \A n \in StaleListed : dels[n] = 1]_vars

\* A run in which GetObject, the store's upsert and the target delete all
\* failed still returned nil.
C27_Witness ==
    /\ Finished
    /\ \E n \in ListedNames(sourceObjects) :
         xfer[n] = "failed_get" /\ upsert[n] = "failed"
    /\ \E n \in StaleListed : dels[n] = 1 /\ n \in Tgt
    /\ errorCounter = 1 /\ delErrorCounter = 1

\* The step handles listed target name n of the removal loop.
HandlesRemoval(n) == pc = "removeLoop" /\ n \in rtodo /\ n \notin rtodo'

\* C28: a removal iteration whose DeleteObject fails counts one deletion
\* error, leaves the metadata record and the store untouched and goes on with
\* the names that are left; whether a delete is issued for a listed target
\* name depends on the run's source listing alone, so a name still in the
\* target and absent from the source has its delete issued again next run.
C28_FailedDeleteKeepsRecord ==
    [][\A n \in Names :
         HandlesRemoval(n) =>
           /\ delErrorCounter' # delErrorCounter =>
                /\ delErrorCounter' = delErrorCounter + 1
                /\ dels'[n] = dels[n] + 1
                /\ store' = store /\ metaDels' = metaDels /\ dbDel' = dbDel
                /\ deleteCounter' = deleteCounter
                /\ pc' = "removeLoop" /\ rtodo' = rtodo \ {n}
           /\ sourceObjects[n] = Absent => dels'[n] = dels[n] + 1
           /\ sourceObjects[n] # Absent => dels' = dels]_vars

\* Of two stale target objects one could not be deleted and keeps its record,
\* the other was deleted together with its record.
C28_Witness ==
    /\ pc = "removeLoop"
    /\ delErrorCounter = 1 /\ deleteCounter = 1
    /\ \E n, m \in StaleListed :
         /\ n # m
         /\ dels[n] = 1 /\ metaDels[n] = 0 /\ n \in Tgt
         /\ Row(n) # Absent /\ Row(n) = Row0(n)
         /\ dels[m] = 1 /\ dbDel[m] = "ok" /\ m \notin Tgt /\ Row(m) = Absent

\* C29: an iteration in which the run's first failed call occurs starts a
\* transfer, and an iteration that skips its object is never one in which a
\* call failed: a failed read of the store is never turned into a skip, not
\* even when the store holds an up-to-date success record.
C29_ReadFailureNeedsSync ==
    [][\A n \in Names :
         Handles(n) =>
           /\ (~otherFails /\ otherFails') => Transfers(n)
           /\ xfer'[n] = "skipped" =>
                (otherFails' = otherFails /\ uploadFails' = uploadFails)]_vars

\* The store held an up-to-date success record, and the object was fetched
\* and uploaded all the same: the read of the record had failed.
C29_Witness ==
    /\ pc = "syncLoop"
    /\ \E n \in Names :
         /\ sourceObjects[n] # Absent
         /\ Fresh(Row0(n), sourceObjects[n])
         /\ otherFails
         /\ gets[n] = 1 /\ puts[n] = 1 /\ xfer[n] = "success"
         /\ upsert[n] = "ok"

\* ---- the schema version after an open (SpecMigrate)
\* The versions above v up to the current one, and file_metadata after their
\* migrations ran on t in ascending order, each once.
Pending(v) == {w \in 1..currentSchemaVersion : w > v}
Upgraded(t, v) ==
    IF v >= currentSchemaVersion THEN t
    ELSE IF v = 1 THEN applyMigration(t, 2)
    ELSE applyMigration(applyMigration(t, 1), 2)

\* C30: after an open that succeeded on a file recording version v, the file
\* records v's versions and one more row for each version of v+1..current,
\* its version is the current one when v was below it, and file_metadata is
\* what the migrations v+1..current make of it in ascending order; a file at
\* the current version or above is left exactly as it was.
C30_SchemaVersionAfterOpen ==
    (dbRet.op = "open" /\ dbRet.err = "nil") =>
      LET v == SchemaVersionOf(disk0.migs)
      IN /\ schemaMigrations.exists
         /\ schemaMigrations.versions = disk0.migs.versions \cup Pending(v)
         /\ fileTable = Upgraded(disk0.table, v)
         /\ v < currentSchemaVersion =>
              SchemaVersionOf(schemaMigrations) = currentSchemaVersion
         /\ v >= currentSchemaVersion =>
              (schemaMigrations = disk0.migs /\ fileTable = disk0.table)

\* A legacy file without a schema_migrations table was opened: both versions
\* are recorded and its rows are in the current layout.
C30_Witness ==
    /\ dbRet.op = "open" /\ dbRet.err = "nil"
    /\ ~disk0.migs.exists
    /\ disk0.table.layout = "bucket_name" /\ disk0.table.rows # {}
    /\ schemaMigrations = [exists |-> TRUE, versions |-> {1, 2}]
    /\ fileTable.layout = "mapping_id" /\ fileTable.rows # {}

\* C31: an open that succeeds on a file recording a version below the
\* current one whose file_metadata already has the mapping_id layout leaves
\* file_metadata (every row, every id) as it was and records the current
\* version; an open that succeeds on a file at the current version with the
\* mapping_id layout, as that first open leaves it, changes nothing at all.
C31_DetectBeforeApply ==
    (dbRet.op = "open" /\ dbRet.err = "nil" /\ disk0.table.layout = "mapping_id") =>
      /\ fileTable = disk0.table
      /\ SchemaVersionOf(disk0.migs) < currentSchemaVersion =>
           SchemaVersionOf(schemaMigrations) = currentSchemaVersion
      /\ SchemaVersionOf(disk0.migs) = currentSchemaVersion =>
           schemaMigrations = disk0.migs

\* A file with three rows in the current layout and no schema_migrations
\* table was opened: the rows are untouched and versions 1 and 2 recorded.
C31_Witness ==
    /\ dbRet.op = "open" /\ dbRet.err = "nil"
    /\ ~disk0.migs.exists
    /\ disk0.table.layout = "mapping_id"
    /\ Cardinality(disk0.table.rows) = 3
    /\ fileTable = disk0.table
    /\ schemaMigrations = [exists |-> TRUE, versions |-> {1, 2}]

\* ---- partitions of the store (SpecCollide)
\* C32 (as stated): a step of a run changes or removes only records under
\* the key of the run's mapping, and that key is the key of no other
\* configured mapping, so the record belongs to the run's mapping alone.
C32_PartitionIsolation ==
    [][\A k \in DOMAIN store :
         store'[k] # store[k] =>
           /\ Len(calls) > 0
           /\ k[1] = MappingID(CurMapping)
           /\ \A i \in 1..Len(config) :
                config[i] # CurMapping => MappingID(config[i]) # k[1]]_vars

\* ---- direction of the transfer
\* C33: the mapping's source differs from its target; no step changes a
\* source bucket; an UploadObject that returned nil has put the object into
\* the mapping's target bucket and a DeleteObject that returned nil has taken
\* it out of there, and no step changes any other bucket.
C33_Unidirectional ==
    [][/\ source' = source
       /\ target' # target =>
            /\ Len(calls) > 0
            /\ SourceLoc(CurMapping) # TargetLoc(CurMapping)
            /\ \A l \in DOMAIN target :
                 l # TargetLoc(CurMapping) => target'[l] = target[l]
       /\ \A n \in Names :
            /\ (Handles(n) /\ BothReturned(n)) => n \in Tgt'
            /\ (HandlesRemoval(n) /\ metaDels'[n] = metaDels[n] + 1)
                 => n \notin Tgt']_vars

\* A finished run has uploaded one object to the target and deleted another
\* from it, and the source still holds what its listing showed.
C33_Witness ==
    /\ Finished
    /\ \E n, m \in Names :
         /\ puts[n] = 1 /\ xfer[n] = "success" /\ n \notin target0 /\ n \in Tgt
         /\ dels[m] = 1 /\ m \in target0 /\ m \notin Tgt
         /\ Src[n] = sourceObjects[n] /\ Src[m] = Absent

\* ---- one thread of control (SpecDriver)
\* A SyncBuckets call is under way.
InRun == pc \in {"listSource", "listTarget", "ensureBucket", "syncLoop", "removeLoop"}

Fetches == \E n \in Names : gets'[n] > gets[n]
Uploads == \E n \in Names : puts'[n] > puts[n]
Deletes == \E n \in Names : dels'[n] > dels[n]

\* C35: while the listings are taken and until EnsureBucketExists has
\* returned nil nothing is fetched, uploaded, deleted or written; uploads
\* happen in the sync loop only, before any delete of the run; deletes happen
\* in the removal loop only, when no source object is left to handle; and
\* from the sync loop on both listings stay as they were taken.
C35_PhaseOrdering ==
    [][/\ pc \in {"listSource", "listTarget", "ensureBucket"} =>
            (NoObjectCall /\ ~Fetches /\ ~Uploads /\ ~Deletes
             /\ upsert' = upsert /\ metaDels' = metaDels
             /\ store' = store /\ target' = target)
       /\ (Fetches \/ Uploads) =>
            (pc = "syncLoop" /\ \A n \in Names : dels[n] = 0 /\ dels'[n] = 0)
       /\ Deletes =>
            (pc = "removeLoop" /\ todo = {} /\ ~Uploads /\ ~Fetches
             /\ \A n \in ListedNames(sourceObjects) : xfer[n] # "none")
       /\ (pc \in {"syncLoop", "removeLoop"} /\ InRun') =>
            (sourceObjects' = sourceObjects /\ targetObjects' = targetObjects)
       /\ (pc = "syncLoop" /\ pc' = "removeLoop") => rtodo' = targetObjects]_vars

\* A run uploaded an object and afterwards deleted a stale one that the
\* target listing had shown.
C35_Witness ==
    /\ pc = "removeLoop"
    /\ \E n, m \in Names :
         /\ puts[n] = 1 /\ n \in Tgt /\ n \notin targetObjects
         /\ dels[m] = 1 /\ m \in targetObjects /\ sourceObjects[m] = Absent
         /\ m \notin Tgt

\* ---- the counters of a run
\* The listed source objects whose iteration ended with one of the outcomes.
Outcome(set) == {n \in ListedNames(sourceObjects) : xfer[n] \in set}

\* C36: once the sync loop of a run is over, synced, skipped and errored
\* count the listed source objects that were transferred, skipped and failed,
\* every listed object being one of the three, so their sum is the size of
\* the source listing; once the run has returned, removed plus deletion
\* errors is the number of listed target names the source listing lacks.
C36_CountsPartition ==
    /\ SyncPhaseOver =>
         /\ syncCounter = Cardinality(Outcome({"success"}))
         /\ skipCounter = Cardinality(Outcome({"skipped"}))
         /\ errorCounter = Cardinality(Outcome({"failed_get", "failed_upload"}))
         /\ Outcome({"none"}) = {}
         /\ syncCounter + skipCounter + errorCounter
              = Cardinality(ListedNames(sourceObjects))
    /\ Finished =>
         deleteCounter + delErrorCounter = Cardinality(StaleListed)

\* A run whose source listing holds one object and whose target listing
\* holds one name more has returned: one object synced, one name removed.
C36_Witness ==
    /\ Finished
    /\ Cardinality(ListedNames(sourceObjects)) = 1
    /\ Cardinality(StaleListed) = 1
    /\ syncCounter = 1 /\ errorCounter = 0 /\ skipCounter = 0
    /\ deleteCounter = 1 /\ delErrorCounter = 0
\* ---- two runs that differ in their target (SpecPair)
\* The first cycle's run of the second mapping has finished its sync loop
\* without a failed call, after a run of the first mapping without one.
BothSyncPassesClean ==
    /\ pc = "removeLoop" /\ calls = <<1, 2>>
    /\ lastRun[MappingID(M2)] = "none" /\ lastRun[MappingID(M1)] = "clean"
    /\ NoFailure

FactoryFailed == factoryRet = "error"

\* C38: when NewFactory returns an error it returns no factory and none of
\* the clients it created is left open.
C38_FactoryCleanup ==
    FactoryFailed =>
      /\ registry = {}
      /\ \A j \in DOMAIN clients : clients[j] # "open"

\* ---- the generated configuration (SpecGenerate)
\* LoadConfig has read back the file SaveDefaultConfig wrote.
LoadedGenerated ==
    /\ Len(parsed.Providers) = 4
    /\ parsed.Providers[1].ID = "gcp"
    /\ parsed.Mappings = <<BucketMapping("gcs-example", "gcs-source-bucket",
                                         "minio-local", "minio-target-bucket")>>
    /\ loadRet # "none"

\* C39: LoadConfig on the file SaveDefaultConfig wrote returns no error.
C39_DefaultConfigLoads == LoadedGenerated => loadRet = "nil"

\* ---- read streams
\* The latest call of SyncBuckets has returned.
SyncBucketsReturned == calls # <<>> /\ pc \in {"syncAll", "main"}

\* GetObject returned a stream for n in the latest run.
GotStream(n) == xfer[n] \in {"success", "failed_upload"}

\* C40: once SyncBuckets has returned, every stream a successful GetObject
\* returned in that run has been closed exactly once, after a successful
\* upload as after a failed one, and nothing else was closed; while the run
\* lasts no stream is closed twice.
C40_StreamsReleased ==
    \A n \in Names :
       /\ readers[n].opened = (IF GotStream(n) THEN 1 ELSE 0)
       /\ readers[n].closed <= readers[n].opened
       /\ SyncBucketsReturned => readers[n].closed = readers[n].opened

\* A run has returned after one upload that succeeded and one that failed,
\* and both streams are closed.
C40_Witness ==
    /\ SyncBucketsReturned
    /\ xfer["a.txt"] = "success" /\ xfer["b.txt"] = "failed_upload"
    /\ readers["a.txt"] = [opened |-> 1, closed |-> 1]
    /\ readers["b.txt"] = [opened |-> 1, closed |-> 1]

====
